---- MODULE Spec2Model ----
(***************************************************************************)
(* The consensus engine (tools/mean_analysis/mean_analyzer.py) over the    *)
(* prediction files written by the predictors (agents/*.py), and the two   *)
(* analytics tools that work on a frame of bars: the volume profile        *)
(* (tools/volume_profile/volume_profile.py) and the technical indicators   *)
(* (tools/technical_indicators/technical_indicators.py).                   *)
(*                                                                         *)
(* Files are JSON documents: a document is the sequence of <<key, value>>  *)
(* pairs json.dump writes, and the empty sequence stands for "no file".    *)
(* In-memory dicts are functions from keys to values.  Confidences are in  *)
(* tenths (8 is 0.8); a mean is the exact fraction <<num, den>> of tenths  *)
(* in lowest terms.  Time is counted in readings of the clock: every        *)
(* datetime.now() returns the next instant.                                *)
(***************************************************************************)
EXTENDS Integers, Sequences, FiniteSets, TLC

VARIABLES
  predictions,    \* data/predictions/<agent>/<symbol>/<timeframe>.json
  mean_analysis,  \* data/mean_analysis/<symbol>/<timeframe>.json
  now,            \* what the next datetime.now() returns
  call,           \* the latest combine_predictions call and how it ended
  mean_predictions, \* the caller's record of what the call returned, per key
  n_calls,        \* combine_predictions calls made so far
  n_writes,       \* predictor writes made so far
  data,           \* the DataFrame of bars handed to the analytics tools
  tool_call,      \* the latest call of an analytics tool and how it ended
  runs,           \* where each caller of the pipeline stands in run_analysis
  response,       \* what the model of the gemini predictor answers the prompt
  charts,         \* data/mean_analysis/<symbol>/charts/<timeframe>.png
  dirs            \* the directories data/predictions/<agent>/<symbol> there
                  \* are, each as <<agent, symbol>>

vars == <<predictions, mean_analysis, now, call, mean_predictions, n_calls, n_writes,
          data, tool_call, runs, response, charts, dirs>>

\* What the consensus engine, the predictors and the pipeline work on.
store_vars ==
  <<predictions, mean_analysis, now, call, mean_predictions, n_calls, n_writes, runs,
    response, charts, dirs>>

---------------------------------------------------------------------------
(* Bounds of the model: the calls and the predictor writes of a run. *)

MaxCalls == 2
MaxWrites == 1

---------------------------------------------------------------------------
(* Names *)

agents == <<"deepseek", "gemini", "groq">>

AgentSet == {agents[i] : i \in DOMAIN agents}

Labels == <<"Buy", "Sell", "Hold">>

LabelSet == {Labels[i] : i \in DOMAIN Labels}

\* The symbols and timeframes the model runs: one of NQ, ES, YM and two of
\* PREDICTION_TIMEFRAMES, which gives two keys.
Symbols == {"NQ"}

Timeframes == {"intraday", "5d"}

NoFile == << >>

\* The keys of a prediction record, in the order they are written.
PredictionKeys ==
  <<"timeframe", "technical_analysis", "sentiment_analysis", "prediction_label",
    "signal_strength", "key_factors", "symbol", "agent", "timestamp">>

\* The keys of a mean prediction, in the order they are written.
MeanKeys ==
  <<"symbol", "timeframe", "prediction_label", "signal_strength",
    "agent_predictions", "signal_counts", "timestamp">>

---------------------------------------------------------------------------
(* dicts and JSON *)

EmptyDict == [k \in {} |-> 0]

\* d.get(k, default)
Get(d, k, default) == IF k \in DOMAIN d THEN d[k] ELSE default

\* The keys of order that d has, in that order.
KeysIn(d, order) == SelectSeq(order, LAMBDA k : k \in DOMAIN d)

\* json.dump of a flat dict: its items, pair by pair.
JsonDump(d, order) ==
  LET ks == KeysIn(d, order)
  IN  [i \in 1..Len(ks) |-> <<ks[i], d[ks[i]]>>]

\* json.load of a flat document: the dict of its pairs (a repeated key keeps
\* its last value).
JsonLoad(doc) ==
  [k \in {doc[i][1] : i \in DOMAIN doc} |->
     doc[CHOOSE i \in DOMAIN doc :
           /\ doc[i][1] = k
           /\ \A j \in DOMAIN doc : j > i => doc[j][1] # k][2]]

\* json.dump of a mean prediction: agent_predictions and signal_counts are
\* dicts themselves and are written as nested documents.
JsonDumpMean(m) ==
  LET ks == KeysIn(m, MeanKeys)
      val(k) == CASE k = "agent_predictions" ->
                       LET as == KeysIn(m[k], agents)
                       IN  [i \in 1..Len(as) |->
                              <<as[i], JsonDump(m[k][as[i]], PredictionKeys)>>]
                  [] k = "signal_counts" -> JsonDump(m[k], Labels)
                  [] OTHER -> m[k]
  IN  [i \in 1..Len(ks) |-> <<ks[i], val(ks[i])>>]

\* json.load of a mean prediction document.
JsonLoadMean(doc) ==
  LET flat == JsonLoad(doc)
  IN  [k \in DOMAIN flat |->
         CASE k = "agent_predictions" ->
                LET inner == JsonLoad(flat[k])
                IN  [a \in DOMAIN inner |-> JsonLoad(inner[a])]
           [] k = "signal_counts" -> JsonLoad(flat[k])
           [] OTHER -> flat[k]]

---------------------------------------------------------------------------
(* Fractions *)

RECURSIVE GCD(_, _)
GCD(a, b) == IF b = 0 THEN a ELSE GCD(b, a % b)

\* a / b as a fraction in lowest terms (b > 0, a >= 0).
Frac(a, b) == LET g == GCD(a, b) IN <<a \div g, b \div g>>

RECURSIVE SumSeq(_)
SumSeq(s) == IF s = << >> THEN 0 ELSE Head(s) + SumSeq(Tail(s))

---------------------------------------------------------------------------
(* Predictors: agents/groq_agent.py, agents/gemini.py *)

Absent == "<absent>"

\* One item of a model's parsed response for a timeframe.  A model may leave
\* out the label or the confidence, or answer with a label outside Labels.
Item(timeframe, label, strength) ==
  LET base == [timeframe |-> timeframe,
               technical_analysis |-> "ta",
               sentiment_analysis |-> "sa",
               key_factors |-> <<"f1", "f2">>]
      l == IF label = Absent THEN EmptyDict ELSE [prediction_label |-> label]
      s == IF strength < 0 THEN EmptyDict ELSE [signal_strength |-> strength]
  IN  base @@ l @@ s

\* What the predictor stores at time t: the item with its metadata added.
SavedItem(agent, symbol, item, t) ==
  [k \in DOMAIN item \cup {"symbol", "agent", "timestamp"} |->
     CASE k = "symbol" -> symbol
       [] k = "agent" -> agent
       [] k = "timestamp" -> t
       [] OTHER -> item[k]]

\* The <<label, confidence>> answers a predictor's write draws from; -1 is
\* a missing confidence.
SmallAnswers ==
  {<<"Buy", 8>>, <<"Sell", 9>>, <<"Hold", 6>>, <<"Strong Buy", 8>>, <<Absent, -1>>}

---------------------------------------------------------------------------
(* MeanAnalyzer.load_agent_prediction *)

Path(agent, symbol, timeframe) == <<agent, symbol, timeframe>>

Exists(agent, symbol, timeframe) ==
  predictions[Path(agent, symbol, timeframe)] # NoFile

default_prediction(symbol, timeframe) ==
  [timeframe |-> timeframe,
   technical_analysis |-> "N/A",
   sentiment_analysis |-> "N/A",
   prediction_label |-> "Hold",
   signal_strength |-> 5,
   key_factors |-> <<"Default prediction">>,
   symbol |-> symbol,
   agent |-> "groq",
   timestamp |-> now]

\* load_agent_prediction giving a loaded record without a label the label Hold.
load_agent_prediction_filled(agent, symbol, timeframe) ==
  IF Exists(agent, symbol, timeframe)
  THEN LET d == JsonLoad(predictions[Path(agent, symbol, timeframe)])
       IN  [k \in DOMAIN d \cup {"prediction_label"} |->
              IF k \in DOMAIN d THEN d[k] ELSE "Hold"]
  ELSE default_prediction(symbol, timeframe)

\* The dict the call returns when it does not raise.
load_agent_prediction(agent, symbol, timeframe) ==
  IF Exists(agent, symbol, timeframe)
  THEN JsonLoad(predictions[Path(agent, symbol, timeframe)])
  ELSE default_prediction(symbol, timeframe)

\* PredictionsAfterLoad with the default returned and not saved.
PredictionsAfterLoad_unsaved(agent, symbol, timeframe) == predictions

\* The prediction files after the call.
PredictionsAfterLoad(agent, symbol, timeframe) ==
  IF ~Exists(agent, symbol, timeframe) /\ agent = "groq"
  THEN [predictions EXCEPT ![Path(agent, symbol, timeframe)] =
          JsonDump(default_prediction(symbol, timeframe), PredictionKeys)]
  ELSE predictions

---------------------------------------------------------------------------
(* MeanAnalyzer.combine_predictions *)

\* The predictions dict after the loading loop: the call for an agent
\* other than groq raises FileNotFoundError when the file is not there.
LoadedPredictions(symbol, timeframe) ==
  [a \in {b \in AgentSet : Exists(b, symbol, timeframe) \/ b = "groq"} |->
     load_agent_prediction(a, symbol, timeframe)]

\* The prediction files after the loading loop.
PredictionsAfterLoop(symbol, timeframe) ==
  PredictionsAfterLoad("groq", symbol, timeframe)

LabelOf(prediction) == Get(prediction, "prediction_label", "Hold")

\* signal_counts passing over a record that has no label.
signal_counts_labelled(preds) ==
  [l \in LabelSet |->
     Cardinality({a \in DOMAIN preds :
                    /\ "prediction_label" \in DOMAIN preds[a]
                    /\ preds[a].prediction_label = l})]

signal_counts(preds) ==
  [l \in LabelSet |-> Cardinality({a \in DOMAIN preds : LabelOf(preds[a]) = l})]

\* max_count taking the least count.
max_count_least(counts) ==
  CHOOSE n \in {counts[l] : l \in LabelSet} : \A l \in LabelSet : counts[l] >= n

max_count(counts) ==
  CHOOSE n \in {counts[l] : l \in LabelSet} : \A l \in LabelSet : counts[l] <= n

mean_labels(counts) == SelectSeq(Labels, LAMBDA l : counts[l] = max_count(counts))

\* mean_label without the preference for Hold.
mean_label_first(counts) == mean_labels(counts)[1]

mean_label(counts) ==
  LET ls == mean_labels(counts)
  IN  IF Len(ls) > 1 /\ \E i \in DOMAIN ls : ls[i] = "Hold"
      THEN "Hold"
      ELSE ls[1]

signal_strengths(preds) ==
  LET as == KeysIn(preds, agents)
  IN  [i \in 1..Len(as) |-> Get(preds[as[i]], "signal_strength", 0)]

\* sum(signal_strengths): a confidence is a whole number of tenths, or the
\* fraction of tenths the gemini predictor stored with a prediction it
\* created.
RECURSIVE SumStrengths(_)
SumStrengths(ss) ==
  IF ss = << >> THEN <<0, 1>>
  ELSE LET whole == ToString(Head(ss)) \in {ToString(i) : i \in 0..10}
           x == IF whole THEN <<Head(ss), 1>> ELSE Head(ss)
           rest == SumStrengths(Tail(ss))
       IN  Frac(x[1] * rest[2] + rest[1] * x[2], x[2] * rest[2])

mean_signal_strength(preds) ==
  LET ss == signal_strengths(preds)
      total == SumStrengths(ss)
  IN  IF ss # << >> THEN Frac(total[1], total[2] * Len(ss)) ELSE <<0, 1>>

mean_prediction(symbol, timeframe, preds, t) ==
  [symbol |-> symbol,
   timeframe |-> timeframe,
   prediction_label |-> mean_label(signal_counts(preds)),
   signal_strength |-> mean_signal_strength(preds),
   agent_predictions |-> preds,
   signal_counts |-> signal_counts(preds),
   timestamp |-> t]

\* How the call ends: signal_counts[label] += 1 raises KeyError for a label
\* that is no key.
Outcome(preds) ==
  IF DOMAIN preds = {} THEN "ValueError"
  ELSE IF \E a \in DOMAIN preds : LabelOf(preds[a]) \notin LabelSet THEN "KeyError"
  ELSE "returned"

\* SaveMean keeping a file that is already there.
SaveMean_keep(symbol, timeframe, m) ==
  IF mean_analysis[<<symbol, timeframe>>] # NoFile
  THEN mean_analysis
  ELSE [mean_analysis EXCEPT ![<<symbol, timeframe>>] = JsonDumpMean(m)]

\* SaveMean writing the file of the first timeframe.
SaveMean_first_timeframe(symbol, timeframe, m) ==
  [mean_analysis EXCEPT ![<<symbol, "intraday">>] = JsonDumpMean(m)]

\* The mean prediction files after m is saved.
SaveMean(symbol, timeframe, m) ==
  [mean_analysis EXCEPT ![<<symbol, timeframe>>] = JsonDumpMean(m)]

\* The clock readings of the loading loop: one, when the default is made.
LoopReadings(symbol, timeframe) ==
  IF Exists("groq", symbol, timeframe) THEN 0 ELSE 1

\* combine_predictions(symbol, timeframe); the default of groq is saved in
\* a directory made for it.
CombinePredictions(symbol, timeframe) ==
  LET preds == LoadedPredictions(symbol, timeframe)
      out == Outcome(preds)
      t == now + LoopReadings(symbol, timeframe)
      m == mean_prediction(symbol, timeframe, preds, t)
  IN  /\ n_calls < MaxCalls
      /\ n_calls' = n_calls + 1
      /\ now' = IF out = "returned" THEN t + 1 ELSE t
      /\ predictions' = PredictionsAfterLoop(symbol, timeframe)
      /\ dirs' = IF Exists("groq", symbol, timeframe) THEN dirs
                 ELSE dirs \cup {<<"groq", symbol>>}
      /\ mean_analysis' =
           IF out = "returned" THEN SaveMean(symbol, timeframe, m) ELSE mean_analysis
      /\ mean_predictions' =
           IF out = "returned"
           THEN [mean_predictions EXCEPT ![<<symbol, timeframe>>] = m]
           ELSE mean_predictions
      /\ call' = [n |-> n_calls + 1, symbol |-> symbol, timeframe |-> timeframe,
                  outcome |-> out,
                  result |-> IF out = "returned" THEN m ELSE EmptyDict]
      /\ UNCHANGED <<n_writes, data, tool_call, runs, response, charts>>

---------------------------------------------------------------------------
(* The predictors' writes *)

\* analyze_futures makes the directory of its files before it asks the model.
PredictorMakedirs(agent, symbol) ==
  /\ <<agent, symbol>> \notin dirs
  /\ dirs' = dirs \cup {<<agent, symbol>>}
  /\ UNCHANGED <<predictions, mean_analysis, now, call, mean_predictions, n_calls,
                 n_writes, data, tool_call, runs, response, charts>>

\* The prediction files after a predictor saved one item at time t: open()
\* raises FileNotFoundError, and nothing is written, when the directory is
\* not there.
PredictionsAfterSave(agent, symbol, item, t) ==
  IF <<agent, symbol>> \in dirs
  THEN [predictions EXCEPT ![Path(agent, symbol, item.timeframe)] =
          JsonDump(SavedItem(agent, symbol, item, t), PredictionKeys)]
  ELSE predictions

\* A predictor saves one item of its response: it reads the clock and opens
\* the file.
PredictorWrite(agent, symbol, item) ==
  /\ n_writes < MaxWrites
  /\ n_writes' = n_writes + 1
  /\ predictions' = PredictionsAfterSave(agent, symbol, item, now)
  /\ now' = now + 1
  /\ UNCHANGED <<mean_analysis, call, mean_predictions, n_calls, data, tool_call, runs,
                 response, charts, dirs>>

---------------------------------------------------------------------------
(* Specifications *)

NoCall == [n |-> 0, symbol |-> "", timeframe |-> "", outcome |-> "none",
           result |-> EmptyDict]

Paths == AgentSet \X Symbols \X Timeframes

Keys == Symbols \X Timeframes

\* No frame has been fetched and no tool has been called.
NoData == [columns |-> {}, rows |-> << >>]

NoToolCall == [op |-> "none", raised |-> "none"]

\* The model has not answered.
NoResponse == [kind |-> "none", items |-> << >>]

\* The callers of the pipeline: the sessions of the Streamlit server, each
\* with a session_state of its own, and the main.py processes.  They share
\* the data directory, and each of them runs the pipeline once.
Sessions == {1, 2}

\* A caller that runs nothing: analysis_running is False.
NoRun ==
  [pc |-> "idle", results |-> {}, i |-> 0, in_flight |-> FALSE,
   loaded |-> EmptyDict, mean_predictions |-> EmptyDict, started |-> FALSE,
   turn |-> FALSE, preempted |-> 0, asked |-> FALSE, pending |-> << >>,
   failing |-> {}, faults |-> 0]

\* Bound of the model: how often a caller that is running is held up for
\* another process to run.
MaxPreemptions == 1

\* The process s can take a step: no other caller was running last, or one
\* more caller can be held up.
MayRun(s) ==
  \A o \in Sessions \ {s} :
    (runs[o].pc # "idle" /\ runs[o].turn) =>
      SumSeq([x \in 1..Cardinality(Sessions) |-> runs[x].preempted]) < MaxPreemptions

\* The callers after a step of the process s that leaves them as r: s was
\* running last, and the caller that was is held up.
Scheduled(s, r) ==
  [x \in Sessions |->
     IF x = s THEN [r[x] EXCEPT !.turn = r[x].pc # "idle"]
     ELSE IF runs[x].pc # "idle" /\ runs[x].turn
          THEN [r[x] EXCEPT !.turn = FALSE, !.preempted = @ + 1]
          ELSE r[x]]

---------------------------------------------------------------------------
(* cleanup.py *)

\* cleanup(), answered with y: the data directory is removed with all it
\* holds, the directories of the predictors among it, and made anew, empty.
\* What the callers hold in memory stays.  It is run from a terminal, a
\* process (0) that is none of the callers.
Cleanup ==
  /\ MayRun(0)
  /\ predictions' = [p \in DOMAIN predictions |-> NoFile]
  /\ mean_analysis' = [k \in DOMAIN mean_analysis |-> NoFile]
  /\ charts' = {}
  /\ dirs' = {}
  /\ runs' = Scheduled(0, runs)
  /\ UNCHANGED <<now, call, mean_predictions, n_calls, n_writes, data, tool_call,
                 response>>

\* An empty data directory.
Init ==
  /\ predictions = [p \in Paths |-> NoFile]
  /\ mean_analysis = [k \in Keys |-> NoFile]
  /\ now = 0
  /\ call = NoCall
  /\ mean_predictions = [k \in Keys |-> EmptyDict]
  /\ n_calls = 0
  /\ n_writes = 0
  /\ data = NoData
  /\ tool_call = NoToolCall
  /\ runs = [s \in Sessions |-> NoRun]
  /\ response = NoResponse
  /\ charts = {}
  /\ dirs = {}

Combine ==
  \E symbol \in Symbols, timeframe \in Timeframes :
    CombinePredictions(symbol, timeframe)

Next ==
  \/ Combine
  \/ \E agent \in AgentSet, symbol \in Symbols :
       \/ PredictorMakedirs(agent, symbol)
       \/ \E timeframe \in Timeframes, a \in SmallAnswers :
            PredictorWrite(agent, symbol, Item(timeframe, a[1], a[2]))
  \/ Cleanup

Spec == Init /\ [][Next]_vars

\* Aggregation over every store of one key: each source has no record or a
\* record, saved at time 0, with any label (or none) and any confidence
\* (or none) of the model's answer; the directory of a record is there.
InitVote ==
  /\ LET none == <<"<none>", -1>>
         wide == {"Buy", "Sell", "Hold", "Strong Buy", Absent} \X {-1, 6, 8, 9}
     IN  \E answers \in [AgentSet -> wide \cup {none}] :
           /\ predictions =
                [p \in Paths |->
                   IF p[2] = "NQ" /\ p[3] = "intraday" /\ answers[p[1]] # none
                   THEN JsonDump(SavedItem(p[1], p[2],
                                           Item(p[3], answers[p[1]][1],
                                                answers[p[1]][2]), 0),
                                 PredictionKeys)
                   ELSE NoFile]
           /\ dirs = {<<a, "NQ">> : a \in {b \in AgentSet : answers[b] # none}}
  /\ mean_analysis = [k \in Keys |-> NoFile]
  /\ now = 1
  /\ call = NoCall
  /\ mean_predictions = [k \in Keys |-> EmptyDict]
  /\ n_calls = 0
  /\ n_writes = 0
  /\ data = NoData
  /\ tool_call = NoToolCall
  /\ runs = [s \in Sessions |-> NoRun]
  /\ response = NoResponse
  /\ charts = {}

NextVote == Combine \/ Cleanup

SpecVote == InitVote /\ [][NextVote]_vars

---------------------------------------------------------------------------
(* Numbers of the analytics tools                                          *)
(*                                                                         *)
(* A number of the technical indicators is the exact fraction <<n, d>> in  *)
(* lowest terms with d > 0, or one of the IEEE values a division by zero   *)
(* produces, written with d = 0: NaN is <<0, 0>>, inf is <<1, 0>>, -inf is *)
(* <<-1, 0>>.  The integers of a frame of bars are such fractions too; the *)
(* volume profile computes in doubles, see float64.                        *)

NaN == <<0, 0>>

Inf == <<1, 0>>

Zero == <<0, 1>>

Num(i) == <<i, 1>>

IsNumeric(x) == x[2] # 0

AddF(x, y) == Frac(x[1] * y[2] + y[1] * x[2], x[2] * y[2])

SubF(x, y) == Frac(x[1] * y[2] - y[1] * x[2], x[2] * y[2])

MulF(x, y) == Frac(x[1] * y[1], x[2] * y[2])

LeqF(x, y) == x[1] * y[2] <= y[1] * x[2]

LtF(x, y) == x[1] * y[2] < y[1] * x[2]

MaxF(x, y) == IF LeqF(x, y) THEN y ELSE x

MinF(x, y) == IF LeqF(x, y) THEN x ELSE y

\* The sum of the values of s, added up pair by pair: the fractions are
\* exact, so the order of the additions does not change the sum.
RECURSIVE SumF(_)
SumF(s) ==
  IF Len(s) = 0 THEN Zero
  ELSE IF Len(s) = 1 THEN Frac(s[1][1], s[1][2])
  ELSE SumF([i \in 1..((Len(s) + 1) \div 2) |->
               IF 2 * i <= Len(s) THEN AddF(s[2 * i - 1], s[2 * i]) ELSE s[2 * i - 1]]
            @@ << >>)

\* x / y of two finite floats, as numpy divides: no exception, x / 0 is
\* inf, -inf or nan.
DivF(x, y) ==
  IF y[1] = 0
  THEN (IF x[1] = 0 THEN NaN ELSE IF x[1] > 0 THEN Inf ELSE <<-1, 0>>)
  ELSE IF y[1] > 0 THEN Frac(x[1] * y[2], x[2] * y[1])
       ELSE Frac(-(x[1] * y[2]), -(x[2] * y[1]))

---------------------------------------------------------------------------
(* The DataFrame of bars *)

required_columns == <<"Open", "High", "Low", "Close", "Volume">>

RequiredSet == {required_columns[i] : i \in DOMAIN required_columns}

\* data.empty: an axis of the frame has length 0.
Empty(d) == d.rows = << >> \/ d.columns = {}

\* data[column] as a sequence of floats.
Column(d, column) == [t \in DOMAIN d.rows |-> Num(d.rows[t][column])]

---------------------------------------------------------------------------
(* calculate_volume_profile *)

\* The share of the total volume the value area has to reach.
value_area_share == <<7, 10>>

\* The default of num_bins.
default_num_bins == 20

RECURSIVE MaxOf(_)
MaxOf(s) == IF Len(s) = 1 THEN s[1] ELSE MaxF(Head(s), MaxOf(Tail(s)))

RECURSIVE MinOf(_)
MinOf(s) == IF Len(s) = 1 THEN s[1] ELSE MinF(Head(s), MinOf(Tail(s)))

price_high(d) == MaxOf(Column(d, "High"))

price_low(d) == MinOf(Column(d, "Low"))

\* The function f as the table of its values.
Table(f) == f @@ << >>

\* numpy's float64, the double of IEEE 754, for the numbers that are not
\* negative: <<m, e>> is m * 2^e, m a number of 53 bits written in base
\* 2^14 with the lowest digit first, and <<<< >>, 0>> is 0.0.  float64(op,
\* x, y) is the double the operation gives: the double nearest the exact
\* result, the one with the even m of two that are equally near.  "int"
\* makes the double of the integer x, "-" takes y from an x that is not
\* below it, and "/" divides by a y that is a whole number below 2^17.
float64(op, x, y) ==
  LET B == 16384
      limb(s, i) == IF i \in DOMAIN s THEN s[i] ELSE 0
      RECURSIVE strip(_)
      strip(s) == IF s = << >> THEN s
                  ELSE IF s[Len(s)] = 0 THEN strip(SubSeq(s, 1, Len(s) - 1))
                  ELSE s
      \* the digits of the number whose i-th digit and above are those of
      \* s, not yet below B, plus c
      RECURSIVE carry(_, _, _)
      carry(s, i, c) ==
        IF i > Len(s) /\ c = 0 THEN << >>
        ELSE <<(limb(s, i) + c) % B>> \o carry(s, i + 1, (limb(s, i) + c) \div B)
      add(a, b) ==
        carry([i \in 1..(IF Len(a) > Len(b) THEN Len(a) ELSE Len(b)) |->
                 limb(a, i) + limb(b, i)], 1, 0)
      sub(a, b) ==
        strip(SubSeq(carry([i \in 1..Len(a) |-> a[i] + (B - 1 - limb(b, i))], 1, 1),
                     1, Len(a)))
      times(a, n) == carry([i \in 1..Len(a) |-> a[i] * n], 1, 0)
      product(a, b) ==
        strip(carry([k \in 1..(Len(a) + Len(b)) |->
                       limb(a, 1) * limb(b, k) + limb(a, 2) * limb(b, k - 1)
                         + limb(a, 3) * limb(b, k - 2) + limb(a, 4) * limb(b, k - 3)],
                    1, 0))
      RECURSIVE over(_, _, _, _)
      over(a, n, i, r) ==
        IF i = 0 THEN <<<< >>, r>>
        ELSE LET digit(rest, q) == <<Append(rest[1], q), rest[2]>>
             IN  digit(over(a, n, i - 1, (r * B + a[i]) % n), (r * B + a[i]) \div n)
      quotient(a, n) == over(a, n, Len(a), 0)
      shl(a, k) == IF a = << >> THEN a
                   ELSE [i \in 1..(k \div 14) |-> 0] \o times(a, 2 ^ (k % 14))
      shr(a, k) == strip(quotient(SubSeq(a, (k \div 14) + 1, Len(a)), 2 ^ (k % 14))[1])
      bits(a) == IF a = << >> THEN 0
                 ELSE (Len(a) - 1) * 14
                        + CHOOSE k \in 1..14 : 2 ^ (k - 1) <= a[Len(a)] /\ a[Len(a)] < 2 ^ k
      \* what is added to n before its s lowest bits are cut off: half of
      \* 2^s where a number halfway goes up, and one less where it goes down
      half(s, up) ==
        IF up THEN shl(<<1>>, s - 1)
        ELSE strip([i \in 1..((s - 1) \div 14) |-> B - 1] \o <<2 ^ ((s - 1) % 14) - 1>>)
      carried(m, e) == IF bits(m) = 54 THEN <<shl(<<1>>, 52), e + 1>> ELSE <<m, e>>
      \* n * 2^e, and a little more where sticky, in 53 bits: a number
      \* halfway between two goes to the one with the even m
      sized(n, e, sticky, l) ==
        IF l = 0 THEN <<<< >>, 0>>
        ELSE IF l <= 53 THEN <<shl(n, 53 - l), e - (53 - l)>>
        ELSE carried(shr(add(n, half(l - 53,
                                     \/ sticky
                                     \/ (limb(n, ((l - 53) \div 14) + 1)
                                           \div 2 ^ ((l - 53) % 14)) % 2 = 1)),
                         l - 53),
                     e + (l - 53))
      round(exact) == sized(exact[1], exact[2], exact[3], bits(exact[1]))
      divided(qr, e) == <<strip(qr[1]), e, qr[2] # 0>>
      whole(m) == limb(m, 1) + B * limb(m, 2)
  IN  round(CASE op = "int" ->
                   <<strip(<<x % B, (x \div B) % B, x \div (B * B)>>), 0, FALSE>>
              [] op = "+" ->
                   IF x[1] = << >> THEN <<y[1], y[2], FALSE>>
                   ELSE IF y[1] = << >> \/ x[2] - y[2] > 55 THEN <<x[1], x[2], FALSE>>
                   ELSE IF y[2] - x[2] > 55 THEN <<y[1], y[2], FALSE>>
                   ELSE IF x[2] >= y[2]
                   THEN <<add(shl(x[1], x[2] - y[2]), y[1]), y[2], FALSE>>
                   ELSE <<add(shl(y[1], y[2] - x[2]), x[1]), x[2], FALSE>>
              [] op = "-" ->
                   IF y[1] = << >> \/ x[2] - y[2] > 55 THEN <<x[1], x[2], FALSE>>
                   ELSE <<sub(shl(x[1], x[2] - y[2]), y[1]), y[2], FALSE>>
              [] op = "*" -> <<product(x[1], y[1]), x[2] + y[2], FALSE>>
              [] op = "/" ->
                   divided(quotient(shl(x[1], 20), whole(shr(y[1], 0 - y[2]))),
                           x[2] - 20))

\* The comparison of two doubles, numpy's less and Python's <: x is below
\* y.
less(x, y) ==
  /\ y[1] # << >>
  /\ \/ x[1] = << >>
     \/ x[2] < y[2]
     \/ /\ x[2] = y[2]
        /\ \E i \in DOMAIN x[1] :
             /\ x[1][i] < y[1][i]
             /\ \A j \in (i + 1)..Len(x[1]) : x[1][j] = y[1][j]

\* np.linspace(start, stop, num_bins + 1) of two integers, in doubles and
\* indexed from 0: start + i * step with step = (stop - start) / num_bins,
\* and stop itself as the last edge.  Where the step is 0.0 numpy takes
\* start + i / num_bins * (stop - start), the same double.
linspace(start, stop, num_bins) ==
  LET edges(first, last, step) ==
        [i \in 0..num_bins |->
           IF i = num_bins THEN last
           ELSE float64("+", float64("*", float64("int", i, 0), step), first)]
  IN  edges(float64("int", start, 0), float64("int", stop, 0),
            float64("/", float64("-", float64("int", stop, 0), float64("int", start, 0)),
                         float64("int", num_bins, 0)))

\* np.searchsorted(a, v): the number of entries of the sorted a below v.
searchsorted(a, v) == Cardinality({i \in DOMAIN a : less(a[i], v)})

low_bin(bins, row) == searchsorted(bins, float64("int", row.Low, 0)) - 1

high_bin(bins, row) == searchsorted(bins, float64("int", row.High, 0))

\* volume_profile.loc[low, 'Volume'] of a label the index does not have,
\* for a candle that fits in one bin.  bins holds the doubles of the edges.
RowRaises(bins, num_bins, row) ==
  LET low == low_bin(bins, row)
  IN  low = high_bin(bins, row) - 1 /\ low \notin 0..(num_bins - 1)

\* The doubles of the Volume column after the loop over the candles: every
\* bin starts at 0.0 and a candle adds its volume to the one bin it fits
\* in, or to every bin it spans its volume times the part of its range that
\* lies in the bin, each sum and each term rounded as the code rounds it.
VolumeFloats(d, num_bins, edges) ==
  LET \* what the candle row adds to every bin, << >> where it adds nothing
      bin_volume64(row, low, high) ==
        [b \in 0..(num_bins - 1) |->
           IF low = high - 1
           THEN (IF b = low THEN float64("int", row.Volume, 0) ELSE << >>)
           ELSE IF b \in low..(high - 1)
                THEN float64("*", float64("int", row.Volume, 0),
                       float64("/",
                         float64("-",
                           IF less(float64("int", row.High, 0), edges[b + 1])
                           THEN float64("int", row.High, 0) ELSE edges[b + 1],
                           IF less(edges[b], float64("int", row.Low, 0))
                           THEN float64("int", row.Low, 0) ELSE edges[b]),
                         float64("int", row.High - row.Low, 0)))
                ELSE << >>]
      RECURSIVE after(_, _, _, _)
      after(terms, volume, t, b) ==
        IF t > Len(terms) THEN volume
        ELSE after(terms,
                   IF terms[t][b] = << >> THEN volume
                   ELSE float64("+", volume, terms[t][b]),
                   t + 1, b)
      loop(terms) == [b \in 0..(num_bins - 1) |-> after(terms, <<<< >>, 0>>, 1, b)]
  IN  loop(Table([t \in DOMAIN d.rows |->
                    Table(bin_volume64(d.rows[t], low_bin(edges, d.rows[t]),
                                       high_bin(edges, d.rows[t])))]))

\* frame.sort_values(key, ascending): the ranking of the rows of the frame
\* by the doubles of the column key, as the sequence of the sets of the
\* labels of equal doubles, the set that comes first in the sorted frame
\* first.  pandas sorts with numpy's quicksort, which is not stable: what
\* routine it runs hangs on the build of numpy and on the processor, and
\* rows of equal doubles come in any order.
sort_values(labels, key, ascending) ==
  LET place(a) ==
        Cardinality({b \in labels : IF ascending THEN less(key[b], key[a])
                                    ELSE less(key[a], key[b])})
      RECURSIVE ranked(_, _)
      ranked(places, p) ==
        IF p >= Cardinality(labels) THEN << >>
        ELSE LET tied(rows) == <<rows>> \o ranked(places, p + Cardinality(rows))
             IN  tied({a \in labels : places[a] = p})
  IN  ranked(Table([a \in labels |-> place(a)]), 0)

\* The orders the rows of a ranking can come in: the sets one after the
\* other, the rows of a set in any order.
RECURSIVE Orders(_)
Orders(ranking) ==
  IF ranking = << >> THEN {<< >>}
  ELSE LET RECURSIVE tied(_)
           tied(rows) ==
             IF rows = {} THEN {<< >>}
             ELSE UNION {{<<a>> \o rest : rest \in tied(rows \ {a})} : a \in rows}
           then(first, others) == {a \o b : a \in first, b \in others}
       IN  then(tied(Head(ranking)), Orders(Tail(ranking)))

\* The sets the first k rows of the orders of a ranking make: the sets that
\* come whole before the k-th row, and any rows of the set the k-th row is
\* in to make up the number.
RECURSIVE first_rows(_, _)
first_rows(ranking, k) ==
  LET whole(first, rest) == {first \cup S : S \in rest}
  IN  IF k = 0 \/ ranking = << >> THEN {{}}
      ELSE IF Cardinality(Head(ranking)) <= k
      THEN whole(Head(ranking),
                 first_rows(Tail(ranking), k - Cardinality(Head(ranking))))
      ELSE {S \in SUBSET Head(ranking) : Cardinality(S) = k}

\* The loop testing before it takes a bin.
RECURSIVE value_area_indices_test_first(_, _, _, _)
value_area_indices_test_first(sorted, volume, cumulative_volume, value_area_volume) ==
  IF sorted = << >> \/ ~less(cumulative_volume, value_area_volume) THEN << >>
  ELSE <<Head(sorted)>>
         \o value_area_indices_test_first(Tail(sorted), volume,
                                          float64("+", cumulative_volume,
                                                  volume[Head(sorted)]),
                                          value_area_volume)

\* The loop that collects the value area: a bin is taken before the test
\* cumulative_volume >= value_area_volume, a test on doubles.  volume holds
\* the doubles of the Volume column.
RECURSIVE value_area_indices(_, _, _, _)
value_area_indices(sorted, volume, cumulative_volume, value_area_volume) ==
  IF sorted = << >> THEN << >>
  ELSE LET taken(idx, cumulative) ==
             IF ~less(cumulative, value_area_volume)
             THEN <<idx>>
             ELSE <<idx>> \o value_area_indices(Tail(sorted), volume, cumulative,
                                                value_area_volume)
       IN  taken(Head(sorted), float64("+", cumulative_volume, volume[Head(sorted)]))

Range(s) == {s[i] : i \in DOMAIN s}

\* The frame returned for an empty data frame, no row of it the point of
\* control.
EmptyProfile_no_poc ==
  [PointOfControl |-> {}, ValueArea |-> {}, index |-> <<0>>,
   PriceLow |-> <<Zero>>, PriceHigh |-> <<Zero>>, PriceMid |-> <<Zero>>,
   Volume |-> <<Zero>>]

\* The frame returned for an empty data frame: a frame is the record of its
\* columns and of index, the labels of its rows, each a sequence over the
\* rows in the order of the frame; a column of booleans is the set of the
\* labels of the rows where it is True.  The numbers of this frame are the
\* integer 0.
EmptyProfile ==
  [PointOfControl |-> {0}, ValueArea |-> {}, index |-> <<0>>,
   PriceLow |-> <<Zero>>, PriceHigh |-> <<Zero>>, PriceMid |-> <<Zero>>,
   Volume |-> <<Zero>>]

\* The exception calculate_volume_profile ends with, or "none".
ProfileRaises(d, num_bins) ==
  IF Empty(d) THEN "none"
  ELSE IF ~({"High", "Low", "Volume"} \subseteq d.columns) THEN "KeyError"
  ELSE LET raises(bins) ==
             IF \E t \in DOMAIN d.rows : RowRaises(bins, num_bins, d.rows[t])
             THEN "KeyError"
             ELSE "none"
       IN  raises(Table(linspace(price_low(d)[1], price_high(d)[1], num_bins)))

\* The frame volume_profile after the loop over the candles, its columns by
\* label, in doubles.
volume_profile(d, num_bins) ==
  LET labels == 0..(num_bins - 1)
      columns(edges) ==
        [PriceLow |-> Table([b \in labels |-> edges[b]]),
         PriceHigh |-> Table([b \in labels |-> edges[b + 1]]),
         PriceMid |-> Table([b \in labels |->
                               float64("/", float64("+", edges[b], edges[b + 1]),
                                            float64("int", 2, 0))]),
         Volume |-> Table(VolumeFloats(d, num_bins, edges))]
  IN  columns(Table(linspace(price_low(d)[1], price_high(d)[1], num_bins)))

\* What calculate_volume_profile holds after the loop over
\* volume_profile_sorted, for every order sort_values('PriceMid') can give
\* the frame: the frame, index, the order of its rows, value_area_volume,
\* ranking, the frame sorted by volume, and n_rows, the number of the rows
\* the loop has taken.  The rows of a set of the ranking have one volume,
\* so the loop takes that many rows in whatever order they come.
volume_profile_sorted(d, num_bins) ==
  LET labels == 0..(num_bins - 1)
      RECURSIVE accumulate(_, _, _, _)
      accumulate(a, r, i, last) ==
        IF i > last THEN r
        ELSE accumulate(a, float64("+", r, a[i]), i + 1, last)
      \* Series.sum(): numpy adds up to seven doubles one after the other,
      \* up to 128 in eight running sums r that it adds in pairs before
      \* it adds what is left over, and more by halves.
      RECURSIVE pairwise_sum(_, _, _)
      pairwise_sum(a, first, n) ==
        LET halves(n2) == float64("+", pairwise_sum(a, first, n2),
                                       pairwise_sum(a, first + n2, n - n2))
            pairs(r) ==
              accumulate(a,
                float64("+",
                  float64("+", float64("+", r[0], r[1]), float64("+", r[2], r[3])),
                  float64("+", float64("+", r[4], r[5]), float64("+", r[6], r[7]))),
                first + n - (n % 8), first + n - 1)
        IN  IF n < 8 THEN accumulate(a, <<<< >>, 0>>, first, first + n - 1)
            ELSE IF n <= 128
            THEN pairs(Table([j \in 0..7 |->
                                accumulate([k \in 1..((n \div 8) - 1) |->
                                              a[first + j + 8 * k]],
                                           a[first + j], 1, (n \div 8) - 1)]))
            ELSE halves((n \div 2) - ((n \div 2) % 8))
      \* total_volume and value_area_volume, the 0.7 of the code the
      \* double nearest 7/10
      summed(frame, index) ==
        [frame |-> frame, index |-> index,
         value_area_volume |->
           float64("*", pairwise_sum(Table([i \in 1..num_bins |->
                                              frame.Volume[index[i]]]),
                                     1, num_bins),
                        float64("/", float64("int", value_area_share[1], 0),
                                     float64("int", value_area_share[2], 0)))]
      \* volume_profile.sort_values('Volume', ascending=False)
      sorted_by_volume(s) ==
        s @@ [ranking |-> sort_values(labels, s.frame.Volume, FALSE)]
      \* one of the orders of a ranking: the rows of a set by their labels
      RECURSIVE one_order(_)
      one_order(ranking) ==
        IF ranking = << >> THEN << >>
        ELSE [i \in 1..Cardinality(Head(ranking)) |->
                CHOOSE a \in Head(ranking) :
                  Cardinality({b \in Head(ranking) : b < a}) = i - 1]
               \o one_order(Tail(ranking))
      \* the loop over volume_profile_sorted
      looped(s) ==
        s @@ [n_rows |-> Len(value_area_indices(one_order(s.ranking), s.frame.Volume,
                                                <<<< >>, 0>>, s.value_area_volume))]
      \* volume_profile.sort_values('PriceMid')
      sorted_by_price(frame, orders) ==
        {looped(sorted_by_volume(summed(frame, index))) : index \in orders}
      unsorted(frame) ==
        sorted_by_price(frame, Orders(sort_values(labels, frame.PriceMid, TRUE)))
  IN  unsorted(volume_profile(d, num_bins))

\* What analyze_volume_profile reads of the frames calculate_volume_profile
\* can return from s: poc_idx, the label of the row flagged as point of
\* control, and ends, the labels of a row of the lowest PriceLow and of a
\* row of the highest PriceHigh among the rows flagged as value area, << >>
\* where no row is flagged.  The flagged rows are the rows of the sets of
\* the ranking that come whole before the row n_rows, and taken rows of the
\* set that row is in: rows with low the lowest and high the highest of
\* them can be taken when there are at least taken rows between the two,
\* and the row poc_idx is one of them when its set is that set.
flagged_rows(s) ==
  LET \* <<the rows of the sets that come whole among the first k rows,
      \*   the set the row k is in, the number of rows taken from it>>
      RECURSIVE split(_, _)
      split(ranking, k) ==
        IF k = 0 \/ ranking = << >> THEN <<{}, {}, 0>>
        ELSE IF Cardinality(Head(ranking)) <= k
        THEN LET after(r) == <<Head(ranking) \cup r[1], r[2], r[3]>>
             IN  after(split(Tail(ranking), k - Cardinality(Head(ranking))))
        ELSE <<{}, Head(ranking), k>>
      lower(a, b) == less(s.frame.PriceLow[a], s.frame.PriceLow[b])
      higher(a, b) == less(s.frame.PriceHigh[b], s.frame.PriceHigh[a])
      lowest(rows) == CHOOSE a \in rows : \A b \in rows : ~lower(b, a)
      highest(rows) == CHOOSE a \in rows : \A b \in rows : ~higher(b, a)
      flagged(poc_idx, low, high) == [poc_idx |-> poc_idx, ends |-> <<low, high>>]
      \* the rows taken are from one set only
      one_set(rows, taken) ==
        {flagged(e[3], e[1], e[2]) :
           e \in {e \in rows \X rows \X rows :
                    LET among == {c \in rows : ~lower(c, e[1]) /\ ~higher(c, e[2])}
                    IN  /\ {e[1], e[2], e[3]} \subseteq among
                        /\ Cardinality({e[1], e[2], e[3]}) <= taken
                        /\ taken <= Cardinality(among)}}
      \* the rows taken come after the whole sets
      more_sets(whole, low, high, rows, taken) ==
        {flagged(e[3], IF lower(e[1], low) THEN e[1] ELSE low,
                       IF higher(e[2], high) THEN e[2] ELSE high) :
           e \in {e \in rows \X rows \X s.ranking[1] :
                    LET among == {c \in rows : ~lower(c, e[1]) /\ ~higher(c, e[2])}
                    IN  /\ {e[1], e[2]} \subseteq among
                        /\ Cardinality({e[1], e[2]}) <= taken
                        /\ taken <= Cardinality(among)}}
      rows_of(r) ==
        IF r[1] = {} /\ r[3] = 0
        THEN {[poc_idx |-> a, ends |-> << >>] : a \in s.ranking[1]}
        ELSE IF r[3] = 0
        THEN {flagged(a, lowest(r[1]), highest(r[1])) : a \in s.ranking[1]}
        ELSE IF r[1] = {} THEN one_set(r[2], r[3])
        ELSE more_sets(r[1], lowest(r[1]), highest(r[1]), r[2], r[3])
  IN  rows_of(split(s.ranking, s.n_rows))

\* The frames calculate_volume_profile can return, their rows in the order
\* of PriceMid; no frame where the call raises.  poc_idx is the first row of
\* the frame sorted by volume and value_area_indices the set of its first
\* n_rows rows.
calculate_volume_profile(d, num_bins) ==
  IF Empty(d) THEN {EmptyProfile}
  ELSE IF ProfileRaises(d, num_bins) # "none" THEN {}
  ELSE
    LET column(s, values) == Table([i \in 1..num_bins |-> values[s.index[i]]])
        columns(s) ==
          [PriceLow |-> column(s, s.frame.PriceLow),
           PriceHigh |-> column(s, s.frame.PriceHigh),
           PriceMid |-> column(s, s.frame.PriceMid),
           Volume |-> column(s, s.frame.Volume)]
        marked(s, c, taken) ==
          {[PointOfControl |-> {m[1]}, ValueArea |-> m[2], index |-> s.index,
            PriceLow |-> c.PriceLow, PriceHigh |-> c.PriceHigh,
            PriceMid |-> c.PriceMid, Volume |-> c.Volume] :
             m \in {m \in s.ranking[1] \X taken : m[2] = {} \/ m[1] \in m[2]}}
        \* the frames of every order of the rows by PriceMid
        RECURSIVE returned(_)
        returned(profiles) ==
          IF profiles = {} THEN {}
          ELSE LET of(s) == marked(s, columns(s), first_rows(s.ranking, s.n_rows))
                              \cup returned(profiles \ {s})
               IN  of(CHOOSE s \in profiles : TRUE)
    IN  returned(volume_profile_sorted(d, num_bins))

\* Bound of the model: the calls of a run to calculate_volume_profile and
\* to analyze_volume_profile.
MaxProfileCalls == 1

\* calculate_volume_profile(data, num_bins)
CalculateVolumeProfile(num_bins) ==
  LET returns(raised) ==
        /\ \E result \in (IF raised = "none"
                          THEN calculate_volume_profile(data, num_bins)
                          ELSE {<< >>}) :
             tool_call' = [op |-> "calculate_volume_profile", raised |-> raised,
                           num_bins |-> num_bins, result |-> result,
                           n |-> tool_call.n + 1]
        /\ UNCHANGED <<data, store_vars>>
  IN  /\ tool_call.n < MaxProfileCalls
      /\ returns(ProfileRaises(data, num_bins))

\* The symbols get_intraday_data has a ticker for.
FUTURES_MAPPING == {"NQ", "ES", "YM"}

\* The results analyze_volume_profile(symbol, interval) can return when
\* get_intraday_data has returned the frame d: one for every frame
\* calculate_volume_profile can return, made of what flagged_rows reads of
\* it.  The chart and the CSV file the call writes are read by nothing and
\* are left out.
analyze_volume_profile(symbol, interval, d, t) ==
  IF Empty(d)
  THEN {[symbol |-> symbol, interval |-> interval,
         current_price |-> Zero, point_of_control |-> Zero,
         value_area_high |-> Zero, value_area_low |-> Zero,
         position_relative_to_poc |-> "unknown",
         position_relative_to_va |-> "unknown",
         volume_profile_path |-> "", analysis_timestamp |-> t,
         data_available |-> FALSE]}
  ELSE IF ProfileRaises(d, default_num_bins) # "none" THEN {}
  ELSE
    LET results(poc_price, value_area_high, value_area_low, current_price) ==
          [symbol |-> symbol, interval |-> interval,
           current_price |-> current_price,
           point_of_control |-> poc_price,
           value_area_high |-> value_area_high, value_area_low |-> value_area_low,
           position_relative_to_poc |->
             IF less(poc_price, current_price) THEN "above" ELSE "below",
           position_relative_to_va |->
             IF ~less(current_price, value_area_low)
                /\ ~less(value_area_high, current_price)
             THEN "inside" ELSE "outside",
           \* os.path.join of data_dir, which is "data", and the rest
           volume_profile_path |->
             <<"data", symbol, "volume_profile", "charts", "volume_profile.png">>,
           analysis_timestamp |-> t]
        \* value_area['PriceHigh'].max() and value_area['PriceLow'].min(),
        \* poc_price where the value area is empty
        analysis(frame, f, current_price) ==
          results(frame.PriceMid[f.poc_idx],
                  IF f.ends # << >> THEN frame.PriceHigh[f.ends[2]]
                  ELSE frame.PriceMid[f.poc_idx],
                  IF f.ends # << >> THEN frame.PriceLow[f.ends[1]]
                  ELSE frame.PriceMid[f.poc_idx],
                  current_price)
        profile(s, rows, current_price) ==
          {analysis(s.frame, f, current_price) : f \in rows}
        analysed(profiles, current_price) ==
          UNION {profile(s, flagged_rows(s), current_price) : s \in profiles}
    IN  analysed(volume_profile_sorted(d, default_num_bins),
                 float64("int", d.rows[Len(d.rows)].Close, 0))

\* The exception analyze_volume_profile ends with, or "none".  d is the
\* frame of the answer "data".
AnalyzeRaises(symbol, answer, d) ==
  IF symbol \notin FUTURES_MAPPING THEN "ValueError"
  ELSE IF answer = "RequestException" THEN "RequestException"
  ELSE IF answer = "Error Message" THEN "ValueError"
  ELSE IF Empty(d) THEN "none"
  ELSE LET profiled(raised) ==
             IF raised # "none" THEN raised
             ELSE IF "Close" \notin d.columns THEN "KeyError" ELSE "none"
       IN  profiled(ProfileRaises(d, default_num_bins))

\* analyze_volume_profile(symbol, interval)
AnalyzeVolumeProfile(symbol, interval, answer) ==
  LET returns(raised) ==
        /\ \E result \in (IF raised = "none"
                          THEN analyze_volume_profile(symbol, interval, data, now)
                          ELSE {EmptyDict}) :
             tool_call' = [op |-> "analyze_volume_profile", raised |-> raised,
                           symbol |-> symbol, interval |-> interval,
                           answer |-> answer, result |-> result,
                           n |-> tool_call.n + 1]
        /\ now' = IF raised = "none" THEN now + 1 ELSE now
        /\ UNCHANGED <<data, predictions, mean_analysis, call, mean_predictions,
                       n_calls, n_writes, runs, response, charts, dirs>>
  IN  /\ tool_call.n < MaxProfileCalls
      /\ returns(AnalyzeRaises(symbol, answer, data))

---------------------------------------------------------------------------
(* The volume profile of every small frame of bars *)

MaxProfileBars == 2
MaxBins == 3

\* The prices of the bars are 10, 50 and 130 and their volumes 0 and 2:
\* over 10..130 three bins are 40 wide, and over 10..50 twenty bins are 2
\* wide.  A bar keeps low <= close <= high: it opens at its low and closes at its
\* high, and one bar closes at 11, the middle of the first of twenty bins
\* over 10..50.  The bars start below the highest price, and the one bar of
\* no volume spans 10..50.  Two bars more, 10..12 and 12..12, make a frame
\* whose three bins are 2/3 wide: no edge between its ends is a double, and
\* volumes that are equal as fractions differ as doubles.  The bars 7..9
\* of volume 100 and 1..57 of volume 1, which closes at 8, make a frame
\* whose twenty bins are 2.8 wide: the middle of the bin of 7..9 is 8 as a
\* fraction and below 8 as a double.
ProfileBars ==
  {[Open |-> q[1], High |-> q[2], Low |-> q[1], Close |-> q[2], Volume |-> q[3]] :
     q \in {q \in {10, 50, 130} \X {10, 50, 130} \X {0, 2} :
              /\ q[1] <= q[2]
              /\ q[1] < 130
              /\ q[3] = 0 => q = <<10, 50, 0>>}
            \cup {<<10, 12, 2>>, <<12, 12, 2>>, <<7, 9, 100>>}}
    \cup {[Open |-> 10, High |-> 50, Low |-> 10, Close |-> 11, Volume |-> 2],
          [Open |-> 1, High |-> 57, Low |-> 1, Close |-> 8, Volume |-> 1]}

RECURSIVE SeqsUpTo(_, _)
SeqsUpTo(S, n) ==
  IF n = 0 THEN {<< >>}
  ELSE LET shorter == SeqsUpTo(S, n - 1)
       IN  shorter \cup {Append(s, x) : s \in {q \in shorter : Len(q) = n - 1},
                                        x \in S}

InitProfile ==
  /\ predictions = [p \in Paths |-> NoFile]
  /\ mean_analysis = [k \in Keys |-> NoFile]
  /\ now = 0
  /\ call = NoCall
  /\ mean_predictions = [k \in Keys |-> EmptyDict]
  /\ n_calls = 0
  /\ n_writes = 0
  /\ \E rows \in SeqsUpTo(ProfileBars, MaxProfileBars) :
       data = [columns |-> RequiredSet, rows |-> rows]
  /\ tool_call = [op |-> "none", raised |-> "none", n |-> 0]
  /\ runs = [s \in Sessions |-> NoRun]
  /\ response = NoResponse
  /\ charts = {}
  /\ dirs = {}

\* The API answers with the bars of data, with an 'Error Message', or the
\* request raises; the interval is the default or the one the tool of the
\* predictors asks for.
NextProfile ==
  \/ \E num_bins \in 1..MaxBins : CalculateVolumeProfile(num_bins)
  \/ \E symbol \in {"NQ", "CL"}, interval \in {"5min", "1min"},
        answer \in {"data", "Error Message", "RequestException"} :
       AnalyzeVolumeProfile(symbol, interval, answer)

SpecProfile == InitProfile /\ [][NextProfile]_vars

---------------------------------------------------------------------------
(* Series of floats: pandas arithmetic raises nothing, it propagates NaN. *)
(* The sign of a zero is not kept: -0.0 is 0.                             *)

Neg(x) == <<-x[1], x[2]>>

AddX(x, y) ==
  IF x = NaN \/ y = NaN THEN NaN
  ELSE IF x[2] = 0 THEN (IF y[2] = 0 /\ y # x THEN NaN ELSE x)
  ELSE IF y[2] = 0 THEN y
  ELSE AddF(x, y)

SubX(x, y) == AddX(x, Neg(y))

MulX(x, y) ==
  IF x = NaN \/ y = NaN THEN NaN
  ELSE IF x[2] = 0 \/ y[2] = 0
       THEN (IF x[1] = 0 \/ y[1] = 0 THEN NaN
             ELSE IF (x[1] > 0) = (y[1] > 0) THEN Inf ELSE Neg(Inf))
       ELSE MulF(x, y)

DivX(x, y) ==
  IF x = NaN \/ y = NaN THEN NaN
  ELSE IF y[2] = 0 THEN (IF x[2] = 0 THEN NaN ELSE Zero)
  ELSE IF x[2] = 0 THEN (IF y[1] >= 0 THEN x ELSE Neg(x))
  ELSE DivF(x, y)

\* The square root of a float that is the square of a fraction.
SqrtF(x) ==
  IF ~IsNumeric(x) THEN x
  ELSE <<CHOOSE r \in 0..x[1] : r * r = x[1], CHOOSE r \in 1..x[2] : r * r = x[2]>>

\* pd.Series(dtype='float64')
EmptySeries == << >>

\* series.diff()
diff(s) == Table([t \in DOMAIN s |-> IF t = 1 THEN NaN ELSE SubX(s[t], s[t - 1])])

\* series.rolling(window).sum(): NaN until the window is full, and where a
\* value of the window is NaN.
rolling_sum(s, window) ==
  Table([t \in DOMAIN s |->
           IF t < window \/ \E u \in (t - window + 1)..t : s[u] = NaN THEN NaN
           ELSE SumF(SubSeq(s, t - window + 1, t))])

\* series.rolling(window).mean()
rolling_mean(s, window) ==
  LET sums == rolling_sum(s, window)
  IN  Table([t \in DOMAIN s |-> DivX(sums[t], Num(window))])

\* series.rolling(window).std(): the sample deviation, ddof = 1.
rolling_std(s, window) ==
  LET mean == rolling_mean(s, window)
  IN  Table([t \in DOMAIN s |->
               IF mean[t] = NaN THEN NaN
               ELSE LET sq == [u \in 1..window |->
                                 LET dev == SubF(s[t - window + u], mean[t])
                                 IN  MulF(dev, dev)]
                    IN  SqrtF(DivX(SumF(sq), Num(window - 1)))])

\* series.cumsum()
cumsum(s) == Table([t \in DOMAIN s |-> SumF(SubSeq(s, 1, t))])

\* series.ewm(span=span, adjust=False).mean() of the first t values.
RECURSIVE ewm_mean_to(_, _, _)
ewm_mean_to(s, span, t) ==
  IF t = 0 THEN << >>
  ELSE IF t = 1 THEN <<s[1]>>
  ELSE LET alpha == Frac(2, span + 1)
           prev == ewm_mean_to(s, span, t - 1)
       IN  Append(prev, AddX(MulX(SubF(Num(1), alpha), prev[t - 1]),
                             MulX(alpha, s[t])))

ewm_mean(s, span) == ewm_mean_to(s, span, Len(s))

---------------------------------------------------------------------------
(* The technical indicators *)

\* The periods of the indicators: the defaults of the calculate_ functions.
rsi_period == 14
fast_period == 12
slow_period == 26
signal_period == 9
bollinger_period == 20
std_dev == 2

calculate_rsi(d) ==
  LET close_series == Column(d, "Close")
      delta == diff(close_series)
      gain == Table([t \in DOMAIN delta |->
                       IF IsNumeric(delta[t]) /\ LtF(Zero, delta[t])
                       THEN delta[t] ELSE Zero])
      loss == Table([t \in DOMAIN delta |->
                       IF IsNumeric(delta[t]) /\ LtF(delta[t], Zero)
                       THEN Neg(delta[t]) ELSE Zero])
      avg_gain == rolling_mean(gain, rsi_period)
      avg_loss == rolling_mean(loss, rsi_period)
      rs == Table([t \in DOMAIN delta |-> DivX(avg_gain[t], avg_loss[t])])
  IN  Table([t \in DOMAIN delta |->
               SubX(Num(100), DivX(Num(100), AddX(Num(1), rs[t])))])

calculate_macd(d) ==
  LET close_series == Column(d, "Close")
      ema_fast == ewm_mean(close_series, fast_period)
      ema_slow == ewm_mean(close_series, slow_period)
      macd_line == Table([t \in DOMAIN close_series |->
                            SubX(ema_fast[t], ema_slow[t])])
      signal_line == ewm_mean(macd_line, signal_period)
      histogram == Table([t \in DOMAIN close_series |->
                            SubX(macd_line[t], signal_line[t])])
  IN  [macd_line |-> macd_line, signal_line |-> signal_line,
       histogram |-> histogram]

\* calculate_vwap with the undefined values filled with 0.
calculate_vwap_filled(d) ==
  LET volume == cumsum(Column(d, "Volume"))
      traded == cumsum(Table([t \in DOMAIN d.rows |->
                  MulX(Num(d.rows[t].High + d.rows[t].Low + d.rows[t].Close),
                       Num(d.rows[t].Volume))]))
  IN  Table([t \in DOMAIN d.rows |->
               IF volume[t] = Zero THEN Zero
               ELSE DivX(traded[t], MulF(Num(3), volume[t]))])

calculate_vwap(d) ==
  LET high_series == Column(d, "High")
      low_series == Column(d, "Low")
      close_series == Column(d, "Close")
      volume_series == Column(d, "Volume")
      typical_price ==
        Table([t \in DOMAIN d.rows |->
                 DivX(AddX(AddX(high_series[t], low_series[t]), close_series[t]),
                      Num(3))])
      traded == cumsum(Table([t \in DOMAIN d.rows |->
                                MulX(typical_price[t], volume_series[t])]))
      volume == cumsum(volume_series)
  IN  Table([t \in DOMAIN d.rows |-> DivX(traded[t], volume[t])])

calculate_bollinger_bands(d) ==
  LET close_series == Column(d, "Close")
      middle_band == rolling_mean(close_series, bollinger_period)
      std == rolling_std(close_series, bollinger_period)
  IN  [upper_band |-> Table([t \in DOMAIN close_series |->
                               AddX(middle_band[t], MulX(std[t], Num(std_dev)))]),
       middle_band |-> middle_band,
       lower_band |-> Table([t \in DOMAIN close_series |->
                               SubX(middle_band[t], MulX(std[t], Num(std_dev)))])]

\* Only the first of the missing columns.
missing_columns_first(d) ==
  LET missing == SelectSeq(required_columns, LAMBDA col : col \notin d.columns)
  IN  IF missing = << >> THEN << >> ELSE <<missing[1]>>

missing_columns(d) == SelectSeq(required_columns, LAMBDA col : col \notin d.columns)

\* calculate_all_indicators with the MACD computed from 20 bars on, the
\* length the Bollinger bands need.
calculate_all_indicators_macd20(d) ==
  [rsi |-> IF Len(d.rows) >= 14 THEN calculate_rsi(d) ELSE EmptySeries,
   macd |-> IF Len(d.rows) >= 20 THEN calculate_macd(d)
            ELSE [macd_line |-> EmptySeries, signal_line |-> EmptySeries,
                  histogram |-> EmptySeries],
   vwap |-> calculate_vwap(d),
   bollinger_bands |->
     IF Len(d.rows) >= 20 THEN calculate_bollinger_bands(d)
     ELSE [upper_band |-> EmptySeries, middle_band |-> EmptySeries,
           lower_band |-> EmptySeries]]

\* The indicators calculate_all_indicators returns when it raises nothing.
\* Nothing in the try block raises on columns of numbers.
calculate_all_indicators(d) ==
  [rsi |-> IF Len(d.rows) >= 14 THEN calculate_rsi(d) ELSE EmptySeries,
   macd |-> IF Len(d.rows) >= 26 THEN calculate_macd(d)
            ELSE [macd_line |-> EmptySeries, signal_line |-> EmptySeries,
                  histogram |-> EmptySeries],
   vwap |-> calculate_vwap(d),
   bollinger_bands |->
     IF Len(d.rows) >= 20 THEN calculate_bollinger_bands(d)
     ELSE [upper_band |-> EmptySeries, middle_band |-> EmptySeries,
           lower_band |-> EmptySeries]]

\* calculate_all_indicators(data)
CalculateAllIndicators ==
  LET missing == missing_columns(data)
  IN  /\ tool_call' =
           IF missing # << >>
           THEN [op |-> "calculate_all_indicators", raised |-> "ValueError",
                 message |-> <<"Data is missing required columns:", missing>>,
                 result |-> EmptyDict]
           ELSE [op |-> "calculate_all_indicators", raised |-> "none",
                 message |-> << >>,
                 result |-> calculate_all_indicators(data)]
      /\ UNCHANGED <<data, store_vars>>

\* None
None == << >>

\* series.iloc[-1] if not series.empty else None
latest(series) == IF series # EmptySeries THEN series[Len(series)] ELSE None

\* What follows the colon in every replacement field of the f-string: the
\* whole of it is the format specification.
format_spec == ".2f if latest is not None else 'N/A'"

\* The exception format(value, spec) ends with, or "none"; of the format
\* specifications in use here float.__format__ takes "" and ".2f".
FormatRaises(value, spec) ==
  IF value = None THEN (IF spec = "" THEN "none" ELSE "TypeError")
  ELSE IF spec \in {"", ".2f"} THEN "none" ELSE "ValueError"

\* The hundredths '.2f' shows of a fraction x >= 0. The float is the double
\* nearest to x, of 53 significant bits, and '.2f' rounds the float: where x
\* lies halfway between two hundredths the float lies on one side of it,
\* unless x is a double itself, and then the tie goes to the even hundredth.
\* rest is what the 53 bits leave of x, in parts of its denominator.
Hundredths(x) ==
  LET p == x[1]
      q == x[2]
      floor == (100 * p) \div q
      twice == 2 * (100 * p - floor * q)
      whole == p \div q
      exponent == IF whole >= 1
                  THEN CHOOSE e \in 0..30 : whole \div (2 ^ e) = 1
                  ELSE LET c == (q + p - 1) \div p
                       IN  -(CHOOSE k \in 1..30 : 2 ^ k >= c /\ 2 ^ (k - 1) < c)
      r[n \in 0..(52 - exponent)] == IF n = 0 THEN p % q ELSE (2 * r[n - 1]) % q
      rest == r[52 - exponent]
  IN  IF twice < q THEN floor
      ELSE IF twice > q THEN floor + 1
      ELSE IF rest = 0 THEN floor + (floor % 2)
      ELSE IF 2 * rest > q THEN floor + 1
      ELSE floor

\* format(value, spec) where it raises nothing: the text of a float, its
\* sign and its hundredths, or of nan and inf. A negative float that rounds
\* to zero keeps its sign.
format(value, spec) ==
  IF value = None THEN <<"None">>
  ELSE IF value = NaN THEN <<"nan">>
  ELSE IF ~IsNumeric(value) THEN <<"inf", value[1]>>
  ELSE IF spec = ".2f"
  THEN <<"%.2f", IF value[1] < 0 THEN "-" ELSE "",
         Hundredths(IF value[1] < 0 THEN Neg(value) ELSE value)>>
  ELSE <<"%r", value>>

\* The lines of the f-string that hold a replacement field: the text before
\* the field and the value of the field.
Fields(indicators) ==
  << <<"- RSI: ", latest(indicators.rsi)>>,
     <<"  - MACD Line: ", latest(indicators.macd.macd_line)>>,
     <<"  - Signal Line: ", latest(indicators.macd.signal_line)>>,
     <<"  - Histogram: ", latest(indicators.macd.histogram)>>,
     <<"- VWAP: ", latest(indicators.vwap)>>,
     <<"  - Upper Band: ", latest(indicators.bollinger_bands.upper_band)>>,
     <<"  - Middle Band: ", latest(indicators.bollinger_bands.middle_band)>>,
     <<"  - Lower Band: ", latest(indicators.bollinger_bands.lower_band)>> >>

\* The exception the try block of format_indicators_for_agents ends with:
\* that of calculate_all_indicators, or of the first field that raises.
TryRaises(d) ==
  IF missing_columns(d) # << >> THEN "ValueError"
  ELSE LET fields == Fields(calculate_all_indicators(d))
           bad == {i \in DOMAIN fields : FormatRaises(fields[i][2], format_spec) # "none"}
       IN  IF bad = {} THEN "none"
           ELSE FormatRaises(fields[CHOOSE i \in bad : \A j \in bad : i <= j][2],
                             format_spec)

\* The text format_indicators_for_agents returns: the block of the
\* indicators, or the note of the except clause.
format_indicators_for_agents(d) ==
  IF TryRaises(d) = "none"
  THEN LET fields == Fields(calculate_all_indicators(d))
       IN  [header |-> "Technical Indicators:",
            note |-> IF Len(d.rows) < 30 THEN "Note: Limited data points" ELSE "",
            entries |-> [i \in DOMAIN fields |->
                           <<fields[i][1], format(fields[i][2], format_spec)>>]]
  ELSE [header |-> "Technical Indicators:",
        note |-> "Note: Unable to calculate technical indicators due to data format or insufficient data points.",
        entries |-> << <<"Error details: ", <<TryRaises(d)>> >> >>]

\* format_indicators_for_agents(data): every exception is caught.
FormatIndicatorsForAgents ==
  /\ tool_call' = [op |-> "format_indicators_for_agents", raised |-> "none",
                   message |-> << >>,
                   result |-> format_indicators_for_agents(data)]
  /\ UNCHANGED <<data, store_vars>>

---------------------------------------------------------------------------
(* The indicators of frames of bars *)

MaxBars == 27
MaxStepBars == 15

\* The bars of the frames: low <= close <= high.
IndicatorBars ==
  {[Open |-> q[1], High |-> q[3], Low |-> q[1], Close |-> q[2], Volume |-> q[4]] :
     q \in {q \in {10, 11} \X {10, 11} \X {10, 11} \X {0, 2} :
              q[1] <= q[2] /\ q[2] <= q[3]}}

\* A first bar and n - 1 copies of another.
Step(first, rest, n) == [t \in 1..n |-> IF t = 1 THEN first ELSE rest]

\* The frames with all columns: the close moves at most once, after the
\* first bar, and a frame whose close moves is short enough for no moving
\* average over it to leave the integers of the model checker.
Frames ==
  {<< >>} \cup
  {Step(first, rest, n) :
     <<first, rest, n>> \in
       {q \in IndicatorBars \X IndicatorBars \X (1..MaxBars) :
          q[1].Close = q[2].Close \/ q[3] <= MaxStepBars}}

\* The rows of a frame without the columns it lacks.
Restrict(rows, columns) ==
  [t \in DOMAIN rows |-> [col \in columns |-> rows[t][col]]]

\* The frames that lack a column: no bar, one bar or thirty of them.
PartialFrames ==
  {[columns |-> columns,
    rows |-> Restrict(Step(bar, bar, n), columns)] :
     <<columns, bar, n>> \in
       ((SUBSET RequiredSet) \ {RequiredSet})
         \X {b \in IndicatorBars : b.Low = 10 /\ b.High = 11 /\ b.Volume = 2}
         \X {0, 1, 30}}

InitIndicators ==
  /\ predictions = [p \in Paths |-> NoFile]
  /\ mean_analysis = [k \in Keys |-> NoFile]
  /\ now = 0
  /\ call = NoCall
  /\ mean_predictions = [k \in Keys |-> EmptyDict]
  /\ n_calls = 0
  /\ n_writes = 0
  /\ \/ \E rows \in Frames : data = [columns |-> RequiredSet, rows |-> rows]
     \/ data \in PartialFrames
  /\ tool_call = NoToolCall
  /\ runs = [s \in Sessions |-> NoRun]
  /\ response = NoResponse
  /\ charts = {}
  /\ dirs = {}

NextIndicators == CalculateAllIndicators \/ FormatIndicatorsForAgents

SpecIndicators == InitIndicators /\ [][NextIndicators]_vars

---------------------------------------------------------------------------
(* agents/gemini.py: the predictions analyze_futures creates for the       *)
(* timeframes the model's response leaves out                              *)

required_timeframes == <<"intraday", "5d", "30d">>

\* max(set(labels), key=labels.count): the first label, in the order the set
\* is iterated, that no other label outnumbers.  The iteration order of a
\* set of strings follows their hashes, which change from one interpreter
\* process to the next; hash_order is the order of this run.
most_common_label(labels, hash_order) ==
  LET count(l) == Cardinality({i \in DOMAIN labels : labels[i] = l})
      set == SelectSeq(hash_order, LAMBDA l : count(l) > 0)
  IN  set[CHOOSE i \in DOMAIN set :
            /\ \A j \in DOMAIN set : count(set[j]) <= count(set[i])
            /\ \A j \in 1..(i - 1) : count(set[j]) < count(set[i])]

\* sum(strengths) / len(strengths) if strengths else 0.5
avg_strength(strengths) ==
  IF strengths = << >> THEN Frac(5, 1)
  ELSE DivF(SumF(strengths), Num(Len(strengths)))

\* The prediction created for a missing timeframe.
inferred_prediction(symbol, timeframe, label, strength) ==
  [timeframe |-> timeframe,
   technical_analysis |-> <<"Analysis inferred from other timeframes. The ",
                            symbol,
                            " futures market shows similar patterns across timeframes.">>,
   sentiment_analysis |-> <<"Sentiment analysis inferred from other timeframes. Market sentiment for ",
                            symbol,
                            " is consistent across different time horizons.">>,
   prediction_label |-> label,
   signal_strength |-> strength,
   key_factors |-> <<"Inferred from other timeframes", "Similar market conditions",
                     "Consistent sentiment">>]

\* timeframe_predictions after the loop over required_timeframes[k..]: the
\* values of the dict in insertion order.  The first n0 values are the
\* model's items, whose confidence is a number of tenths; the values after
\* them are the predictions created so far, whose confidence is a fraction.
\* A prediction created for one timeframe counts among the "other
\* predictions" of the timeframes after it.
RECURSIVE timeframe_predictions(_, _, _, _, _)
timeframe_predictions(symbol, values, n0, k, hash_order) ==
  IF k > Len(required_timeframes) THEN values
  ELSE LET timeframe == required_timeframes[k]
           labels == [i \in DOMAIN values |->
                        Get(values[i], "prediction_label", "Hold")]
           strengths == [i \in DOMAIN values |->
                           IF i <= n0
                           THEN Num(Get(values[i], "signal_strength", 5))
                           ELSE values[i].signal_strength]
       IN  IF \/ \E i \in DOMAIN values : values[i].timeframe = timeframe
              \/ Len(values) = 0
           THEN timeframe_predictions(symbol, values, n0, k + 1, hash_order)
           ELSE timeframe_predictions(
                  symbol,
                  Append(values,
                         inferred_prediction(symbol, timeframe,
                                             most_common_label(labels, hash_order),
                                             avg_strength(strengths))),
                  n0, k + 1, hash_order)

\* The orders a process can iterate a set of labels in.
HashOrders ==
  {o \in [1..4 -> {"Buy", "Sell", "Hold", "Strong Buy"}] :
     \A i, j \in 1..4 : o[i] = o[j] => i = j}

\* The predictions analyze_futures goes on to save, from the parsed response:
\* gemini completes the list of a JSON response; a fenced list is taken as
\* it is, and a response that holds no JSON gives nothing to save.
parsed(agent, symbol, r, hash_order) ==
  CASE r.kind = "json" /\ agent = "gemini" ->
         timeframe_predictions(symbol, r.items, Len(r.items), 1, hash_order)
    [] r.kind \in {"json", "fenced"} -> r.items
    [] OTHER -> << >>

---------------------------------------------------------------------------
(* The pipeline: main.run_analysis and streamlit_app.start_analysis.       *)
(*                                                                         *)
(* A caller steps through the predictors and then through the calls of     *)
(* combine_predictions that run_analysis, plot_mean_prediction and         *)
(* create_interactive_chart make.  A call of combine_predictions is two    *)
(* steps, the loading loop and the write of the artifact: nothing holds    *)
(* other callers back between them.                                        *)

\* MeanAnalyzer.PREDICTION_TIMEFRAMES
PREDICTION_TIMEFRAMES == <<"intraday", "5d", "30d">>

\* The steps of run_analysis with the combining moved before the call of
\* groq.
Steps_combine_before_groq == <<"deepseek", "gemini", "combine", "groq">>

\* The steps of run_analysis, in the order of its statements.
Steps == <<"deepseek", "gemini", "groq", "combine">>

\* The places of one execution where combine_predictions is called,
\* <<caller, timeframe, place>>: run_analysis and plot_mean_prediction for
\* each timeframe, then create_interactive_chart for its dashboard and for
\* the tab of each timeframe.
CombineCalls ==
  [k \in 1..(2 * Len(PREDICTION_TIMEFRAMES)) |->
     <<IF k % 2 = 1 THEN "run_analysis" ELSE "plot_mean_prediction",
       PREDICTION_TIMEFRAMES[(k + 1) \div 2], "loop">>]
    \o << <<"create_interactive_chart", "intraday", "dashboard">> >>
    \o [k \in DOMAIN PREDICTION_TIMEFRAMES |->
          <<"create_interactive_chart", PREDICTION_TIMEFRAMES[k], "tab">>]

\* Bound of the model: how often, over all callers, an execution departs
\* from the plain one, in which the chart data lets every plot succeed and
\* every model answers with the JSON list of all timeframes.
MaxFaults == 1

\* One more departure from the plain execution fits the bound.
MayFail ==
  SumSeq([x \in 1..Cardinality(Sessions) |-> runs[x].faults]) < MaxFaults

\* What the models of the pipeline answer: the JSON list of all timeframes
\* with a label of the consensus engine or with one it does not know, a
\* list of the first timeframe only, bare or in a fence, or text.  The
\* first is the plain answer.
PipelineResponses ==
  <<[kind |-> "json",
     items |-> [k \in DOMAIN PREDICTION_TIMEFRAMES |->
                  Item(PREDICTION_TIMEFRAMES[k], "Buy", 8)]],
    [kind |-> "json",
     items |-> [k \in DOMAIN PREDICTION_TIMEFRAMES |->
                  Item(PREDICTION_TIMEFRAMES[k], "Strong Buy", 9)]],
    [kind |-> "json", items |-> <<Item(PREDICTION_TIMEFRAMES[1], "Buy", 8)>>],
    [kind |-> "fenced", items |-> <<Item(PREDICTION_TIMEFRAMES[1], "Buy", 8)>>],
    [kind |-> "text", items |-> << >>]>>

\* The callers after the execution of s ended.
Ended(s) ==
  [runs EXCEPT ![s] = [NoRun EXCEPT !.started = TRUE,
                                    !.preempted = runs[s].preempted,
                                    !.faults = runs[s].faults]]

\* The caller s moves to the step after step, or to "idle" after the last
\* one.
Enter(s, step, results) ==
  LET k == CHOOSE k \in DOMAIN Steps : Steps[k] = step
      next == IF k < Len(Steps) THEN Steps[k + 1] ELSE "idle"
  IN  IF next = "idle" THEN Ended(s)
      ELSE [runs EXCEPT ![s] =
              [@ EXCEPT !.pc = next, !.results = results,
                        !.i = IF next = "combine" THEN 1 ELSE 0,
                        !.in_flight = FALSE, !.loaded = EmptyDict,
                        !.asked = FALSE, !.pending = << >>]]

\* start_analysis(symbol): a caller that runs nothing starts its execution
\* and fetches the chart data of every timeframe; failing are the
\* timeframes whose data (an empty frame) will make the plot fail.  The
\* callers are alike, so they are numbered in the order they start.
StartAnalysis(s, failing) ==
  /\ runs[s].pc = "idle"
  /\ ~runs[s].started
  /\ \A o \in Sessions : o < s => runs[o].started
  /\ MayRun(s)
  /\ failing # {} => MayFail
  /\ runs' = Scheduled(s, [runs EXCEPT ![s] =
                             [@ EXCEPT !.pc = Steps[1], !.started = TRUE,
                                       !.failing = failing,
                                       !.faults = IF failing = {} THEN @ ELSE @ + 1]])
  /\ UNCHANGED <<predictions, mean_analysis, now, call, mean_predictions,
                 n_calls, n_writes, data, tool_call, response, charts, dirs>>

\* <agent>_analyze(symbol) makes the directory of its files and goes on to
\* fetch the chart data and the sentiment and to ask the model: it waits
\* for the answers with the directory made.
PredictorStarts(s, symbol) ==
  LET agent == runs[s].pc
  IN  /\ agent \in AgentSet
      /\ ~runs[s].asked
      /\ runs[s].pending = << >>
      /\ MayRun(s)
      /\ dirs' = dirs \cup {<<agent, symbol>>}
      /\ runs' = Scheduled(s, [runs EXCEPT ![s].asked = TRUE])
      /\ UNCHANGED <<predictions, mean_analysis, now, call, mean_predictions,
                     n_calls, n_writes, data, tool_call, response, charts>>

\* The model has answered <agent>_analyze(symbol), which parses the
\* response r.  With nothing to save it returns at once.
PredictorParses(s, symbol, r, hash_order) ==
  LET agent == runs[s].pc
      values == parsed(agent, symbol, PipelineResponses[r], hash_order)
      fault == IF r = 1 THEN 0 ELSE 1
      answered == [runs EXCEPT ![s].faults = @ + fault, ![s].asked = FALSE]
  IN  /\ agent \in AgentSet
      /\ runs[s].asked
      /\ MayRun(s)
      /\ r # 1 => MayFail
      /\ runs' = Scheduled(s,
                   IF values = << >>
                   THEN [Enter(s, agent, runs[s].results \cup {agent})
                           EXCEPT ![s].faults = answered[s].faults]
                   ELSE [answered EXCEPT ![s].pending = values])
      /\ UNCHANGED <<predictions, mean_analysis, now, call, mean_predictions,
                     n_calls, n_writes, data, tool_call, response, charts, dirs>>

\* <agent>_analyze(symbol) saves the next item: it reads the clock and
\* opens the file of the item's timeframe.  open() raises FileNotFoundError
\* when the directory is gone, and the execution ends there; after the last
\* item the predictor returns.  The reading for the returned dict is kept
\* nowhere.
PredictorSaves(s, symbol) ==
  LET agent == runs[s].pc
      item == Head(runs[s].pending)
  IN  /\ agent \in AgentSet
      /\ runs[s].pending # << >>
      /\ MayRun(s)
      /\ predictions' = PredictionsAfterSave(agent, symbol, item, now)
      /\ now' = now + 1
      /\ runs' = Scheduled(s,
                   IF <<agent, symbol>> \notin dirs THEN Ended(s)
                   ELSE IF Tail(runs[s].pending) = << >>
                        THEN Enter(s, agent, runs[s].results \cup {agent})
                        ELSE [runs EXCEPT ![s].pending = Tail(@)])
      /\ UNCHANGED <<mean_analysis, call, mean_predictions, n_calls, n_writes,
                     data, tool_call, response, charts, dirs>>

\* <agent>_analyze(symbol) raises while it fetches the chart data or the
\* sentiment or asks the model, its directory made: the execution ends
\* there.
PredictorRaises(s, symbol) ==
  /\ runs[s].pc \in AgentSet
  /\ runs[s].asked
  /\ MayRun(s)
  /\ MayFail
  /\ runs' = Scheduled(s, [Ended(s) EXCEPT ![s].faults = @ + 1])
  /\ UNCHANGED <<predictions, mean_analysis, now, call, mean_predictions,
                 n_calls, n_writes, data, tool_call, response, charts, dirs>>

\* The caller after it is through with the place i: a call of run_analysis
\* that raised takes the plot of its timeframe with it.
AfterCall(s, raised) ==
  LET c == CombineCalls[runs[s].i]
      next == IF raised /\ c[1] = "run_analysis" THEN runs[s].i + 2
              ELSE runs[s].i + 1
  IN  IF next > Len(CombineCalls)
      THEN Enter(s, "combine", runs[s].results)
      ELSE [runs EXCEPT ![s] = [@ EXCEPT !.i = next, !.in_flight = FALSE,
                                         !.loaded = EmptyDict]]

\* The charts after the call at the place c ended with out: the chart is
\* saved by plot_mean_prediction, which goes on to plot when its call
\* returned or raised FileNotFoundError or ValueError; any other exception
\* leaves it, and the plot fails on the chart data of the timeframes in
\* failing.
plot_mean_prediction(c, symbol, out, failing) ==
  IF /\ c[1] = "plot_mean_prediction"
     /\ out \in {"returned", "FileNotFoundError", "ValueError"}
     /\ c[2] \notin failing
  THEN charts \cup {<<symbol, c[2]>>}
  ELSE charts

\* combine_predictions(symbol, timeframe), the loading loop and the count
\* of the labels; the call for a tab that is not shown is not made:
\* create_interactive_chart fills the tab of a timeframe only if the chart
\* of the timeframe exists, whoever saved it.
CombineLoad(s, symbol) ==
  LET c == CombineCalls[runs[s].i]
      timeframe == c[2]
      preds == LoadedPredictions(symbol, timeframe)
      out == Outcome(preds)
  IN  /\ runs[s].pc = "combine"
      /\ ~runs[s].in_flight
      /\ MayRun(s)
      /\ IF c[3] = "tab" /\ <<symbol, timeframe>> \notin charts
         THEN /\ runs' = Scheduled(s, AfterCall(s, FALSE))
              /\ UNCHANGED <<predictions, now, call, n_calls, charts, dirs>>
         ELSE /\ predictions' = PredictionsAfterLoop(symbol, timeframe)
              /\ dirs' = IF Exists("groq", symbol, timeframe) THEN dirs
                         ELSE dirs \cup {<<"groq", symbol>>}
              /\ now' = now + LoopReadings(symbol, timeframe)
              /\ IF out = "returned"
                 THEN /\ runs' = Scheduled(s, [runs EXCEPT ![s] =
                                                 [@ EXCEPT !.in_flight = TRUE,
                                                           !.loaded = preds]])
                      /\ UNCHANGED <<call, n_calls, charts>>
                 ELSE /\ runs' = Scheduled(s, AfterCall(s, TRUE))
                      /\ n_calls' = n_calls + 1
                      /\ call' = [n |-> n_calls + 1, symbol |-> symbol,
                                  timeframe |-> timeframe, outcome |-> out,
                                  result |-> EmptyDict]
                      /\ charts' = plot_mean_prediction(c, symbol, out, runs[s].failing)
      /\ UNCHANGED <<mean_analysis, mean_predictions, n_writes, data, tool_call,
                     response>>

\* combine_predictions(symbol, timeframe), the mean prediction and the
\* write of the artifact; plot_mean_prediction then saves its chart.
CombineSave(s, symbol) ==
  LET c == CombineCalls[runs[s].i]
      m == mean_prediction(symbol, c[2], runs[s].loaded, now)
      after == AfterCall(s, FALSE)
  IN  /\ runs[s].pc = "combine"
      /\ runs[s].in_flight
      /\ MayRun(s)
      /\ mean_analysis' = SaveMean(symbol, c[2], m)
      /\ now' = now + 1
      /\ n_calls' = n_calls + 1
      /\ call' = [n |-> n_calls + 1, symbol |-> symbol, timeframe |-> c[2],
                  outcome |-> "returned", result |-> m]
      /\ charts' = plot_mean_prediction(c, symbol, "returned", runs[s].failing)
      /\ runs' = Scheduled(s,
                   IF c[1] = "run_analysis" /\ after[s].pc = "combine"
                   THEN [after EXCEPT ![s].mean_predictions =
                           [tf \in DOMAIN @ \cup {c[2]} |->
                              IF tf = c[2] THEN m ELSE @[tf]]]
                   ELSE after)
      /\ UNCHANGED <<predictions, mean_predictions, n_writes, data, tool_call, response,
                     dirs>>

\* An empty data directory, with room for the files of every timeframe of
\* the pipeline.
InitPipeline ==
  /\ predictions = [p \in AgentSet \X Symbols \X Range(PREDICTION_TIMEFRAMES) |-> NoFile]
  /\ mean_analysis = [k \in Symbols \X Range(PREDICTION_TIMEFRAMES) |-> NoFile]
  /\ now = 0
  /\ call = NoCall
  /\ mean_predictions = [k \in Keys |-> EmptyDict]
  /\ n_calls = 0
  /\ n_writes = 0
  /\ data = NoData
  /\ tool_call = NoToolCall
  /\ runs = [s \in Sessions |-> NoRun]
  /\ response = NoResponse
  /\ charts = {}
  /\ dirs = {}

NextPipeline ==
  \/ \E s \in Sessions, symbol \in Symbols :
       \/ \E failing \in SUBSET Range(PREDICTION_TIMEFRAMES) : StartAnalysis(s, failing)
       \/ PredictorStarts(s, symbol)
       \/ \E r \in DOMAIN PipelineResponses, hash_order \in HashOrders :
            PredictorParses(s, symbol, r, hash_order)
       \/ PredictorSaves(s, symbol)
       \/ PredictorRaises(s, symbol)
       \/ CombineLoad(s, symbol)
       \/ CombineSave(s, symbol)
  \/ Cleanup

SpecPipeline == InitPipeline /\ [][NextPipeline]_vars

---------------------------------------------------------------------------
(* agents/gemini.py: analyze_futures, from the model's response on *)

\* Bound of the model: the runs of the predictor on one response.
MaxAgentRuns == 2

\* What response.content can hold: a JSON list with an item for some of the
\* required timeframes, the same list inside a ```json fence, a ```json
\* fence around text that is no JSON, or text that is no JSON and holds no
\* such fence.  An item is free text and numbers of the model's choosing;
\* it may leave out the label or the confidence, and it may repeat the
\* wording of a prediction stored earlier.
Responses ==
  LET none == <<"none", 0>>
      echo == <<"echo", 0>>
      item(timeframe, a) ==
        IF a = echo
        THEN [Item(timeframe, "Hold", 6) EXCEPT
                !.key_factors = inferred_prediction("", "", "", 0).key_factors]
        ELSE Item(timeframe, a[1], a[2])
      items(f) ==
        LET answered == SelectSeq(required_timeframes, LAMBDA t : f[t] # none)
        IN  [i \in DOMAIN answered |-> item(answered[i], f[answered[i]])]
  IN  {[kind |-> kind, items |-> items(f)] :
         kind \in {"json", "fenced"},
         f \in [Range(required_timeframes) -> SmallAnswers \cup {none, echo}]}
      \cup {[kind |-> kind, items |-> << >>] : kind \in {"text", "fenced_text"}}

\* The call ended: it returned result, or raised.  The record of the calls
\* holds how the latest call that ended did so (raised, result), how many
\* ended (n), and of the call that is under way whether it waits for the
\* model (asked) or saves (running), the predictions it has yet to save
\* (pending) and the records it has saved (saved).
Finished(raised, result) ==
  [op |-> "analyze_futures", raised |-> raised, n |-> tool_call.n + 1,
   result |-> result, asked |-> FALSE, running |-> FALSE, pending |-> << >>,
   saved |-> << >>]

\* analyze_futures(symbol) makes the directory of its files and goes on to
\* fetch the chart data, the sentiment and the volume profile and to ask
\* the model: it waits for the answers with the directory made.
AnalyzeFuturesStarts(symbol) ==
  /\ ~tool_call.asked
  /\ ~tool_call.running
  /\ tool_call.n < MaxAgentRuns
  /\ dirs' = dirs \cup {<<"gemini", symbol>>}
  /\ tool_call' = [tool_call EXCEPT !.asked = TRUE]
  /\ UNCHANGED <<predictions, mean_analysis, now, call, mean_predictions, n_calls,
                 n_writes, data, runs, response, charts>>

\* The wait of analyze_futures ends.  A fetch or agent.run raises, and the
\* call with it, or agent.run returns the response, which is parsed: the
\* predictions are completed (a JSON response only).  With nothing to save
\* the call returns at once, with the record of the error and of the
\* response where the response held no JSON.
AnalyzeFuturesParses(symbol, hash_order, run) ==
  LET values == parsed("gemini", symbol, response, hash_order)
  IN  /\ tool_call.asked
      /\ tool_call' =
           IF run = "raises" THEN Finished("Exception", << >>)
           ELSE IF values = << >>
           THEN Finished("none",
                         CASE response.kind = "text" ->
                                <<[error |-> "Response is not valid JSON",
                                   response |-> response]>>
                           [] response.kind = "fenced_text" ->
                                <<[error |-> "Failed to parse JSON from response",
                                   response |-> response]>>
                           [] OTHER -> << >>)
           ELSE [tool_call EXCEPT !.asked = FALSE, !.running = TRUE,
                                  !.pending = values]
      /\ UNCHANGED <<predictions, mean_analysis, now, call, mean_predictions, n_calls,
                     n_writes, data, runs, response, charts, dirs>>

\* analyze_futures gives the next prediction its metadata and writes its
\* file: open() raises FileNotFoundError when the directory is gone, and
\* nothing more is written or returned.  After the last file the call
\* returns the records.
AnalyzeFuturesSaves(symbol) ==
  LET item == SavedItem("gemini", symbol, Head(tool_call.pending), now)
      path == Path("gemini", symbol, item.timeframe)
      saved == Append(tool_call.saved, item)
  IN  /\ tool_call.running
      /\ now' = now + 1
      /\ IF <<"gemini", symbol>> \notin dirs
         THEN /\ tool_call' = Finished("FileNotFoundError", << >>)
              /\ UNCHANGED predictions
         ELSE /\ predictions' =
                   Table([p \in DOMAIN predictions \cup {path} |->
                            IF p = path THEN JsonDump(item, PredictionKeys)
                            ELSE predictions[p]])
              /\ tool_call' =
                   IF Tail(tool_call.pending) = << >>
                   THEN Finished("none", saved)
                   ELSE [tool_call EXCEPT !.pending = Tail(@), !.saved = saved]
      /\ UNCHANGED <<mean_analysis, call, mean_predictions, n_calls, n_writes, data,
                     runs, response, charts, dirs>>

InitGemini ==
  /\ predictions = [p \in Paths |-> NoFile]
  /\ mean_analysis = [k \in Keys |-> NoFile]
  /\ now = 0
  /\ call = NoCall
  /\ mean_predictions = [k \in Keys |-> EmptyDict]
  /\ n_calls = 0
  /\ n_writes = 0
  /\ data = NoData
  /\ tool_call = [op |-> "none", raised |-> "none", n |-> 0, result |-> << >>,
                  asked |-> FALSE, running |-> FALSE, pending |-> << >>,
                  saved |-> << >>]
  /\ runs = [s \in Sessions |-> NoRun]
  /\ response \in Responses
  /\ charts = {}
  /\ dirs = {}

NextGemini ==
  \/ \E symbol \in Symbols :
       \/ AnalyzeFuturesStarts(symbol)
       \/ \E hash_order \in HashOrders, run \in {"returns", "raises"} :
            AnalyzeFuturesParses(symbol, hash_order, run)
       \/ AnalyzeFuturesSaves(symbol)
  \/ Cleanup

SpecGemini == InitGemini /\ [][NextGemini]_vars

---------------------------------------------------------------------------
(* tools/chart_scraper/agno_tool.py: get_chart_data *)

\* format_indicators(data), the text of format_indicators_for_agents.  The
\* first replacement field of the f-string is the RSI's and it raises
\* whatever the RSI is, so the text is the note of the except clause with
\* that exception; no later field is formatted.
format_indicators(d) ==
  LET rsi == IF Len(d.rows) >= 14 THEN calculate_rsi(d) ELSE EmptySeries
      e == IF missing_columns(d) # << >> THEN "ValueError"
           ELSE FormatRaises(latest(rsi), format_spec)
  IN  [header |-> "Technical Indicators:",
       note |-> "Note: Unable to calculate technical indicators due to data format or insufficient data points.",
       entries |-> << <<"Error details: ", <<e>> >> >>]

\* close_series.rolling(window).mean().iloc[-1] if len(close_series) >= window
\* else None
sma(close_series, window) ==
  IF Len(close_series) >= window
  THEN latest(rolling_mean(close_series, window))
  ELSE None

\* The block with a trend that is Bullish when the averages are equal.
basic_analysis_bullish_on_equal(d, latest_close) ==
  LET close_series == Column(d, "Close")
      sma20 == sma(close_series, 20)
      sma50 == sma(close_series, 50)
      sma200 == sma(close_series, 200)
      str(x) == IF x # None THEN format(x, ".2f") ELSE <<"N/A">>
      trend == IF sma20 # None /\ sma50 # None
               THEN (IF LeqF(sma50, sma20) THEN "Bullish" ELSE "Bearish")
               ELSE "Neutral"
  IN  [header |-> "Basic Technical Analysis:",
       latest_close |-> latest_close,
       sma20 |-> str(sma20),
       sma50 |-> str(sma50),
       sma200 |-> str(sma200),
       trend |-> trend]

\* The block get_chart_data adds to the indicators when the frame has 20
\* bars or more.
basic_analysis(d, latest_close) ==
  LET close_series == Column(d, "Close")
      sma20 == sma(close_series, 20)
      sma50 == sma(close_series, 50)
      sma200 == sma(close_series, 200)
      str(x) == IF x # None THEN format(x, ".2f") ELSE <<"N/A">>
      trend == IF sma20 # None /\ sma50 # None
               THEN (IF LtF(sma50, sma20) THEN "Bullish"
                     ELSE IF LtF(sma20, sma50) THEN "Bearish"
                     ELSE "Neutral")
               ELSE "Neutral"
  IN  [header |-> "Basic Technical Analysis:",
       latest_close |-> latest_close,
       sma20 |-> str(sma20),
       sma50 |-> str(sma50),
       sma200 |-> str(sma200),
       trend |-> trend]

\* get_chart_data(symbol, timeframe), data being what yf.download returns.
GetChartData(symbol, timeframe) ==
  LET supported == /\ symbol \in {"NQ", "ES", "YM"}
                   /\ timeframe \in {"intraday", "5d", "30d", "60d", "90d", "6mo", "1y"}
      n == Len(data.rows)
      latest_close == IF n > 0 THEN Num(data.rows[n].Close) ELSE None
      indicators_text == format_indicators(data)
  IN  /\ tool_call' =
           IF ~supported
           THEN [op |-> "get_chart_data", raised |-> "ValueError", result |-> EmptyDict]
           ELSE IF n > 0 /\ ~data.multi
           THEN [op |-> "get_chart_data", raised |-> "AttributeError",
                 result |-> EmptyDict]
           ELSE [op |-> "get_chart_data",
                 raised |-> "none",
                 result |->
                   [num_points |-> n,
                    latest_close |-> latest_close,
                    indicators_text |->
                      IF n >= 20
                      THEN <<indicators_text, basic_analysis(data, latest_close)>>
                      ELSE <<indicators_text>>]]
      /\ UNCHANGED <<data, store_vars>>

\* The frames yf.download returns: no bar, or bars whose close is one price
\* up to the last k bars and another from there on.  The columns have two
\* levels (field, ticker) or one, with the version of yfinance in use; with
\* two levels data['Close'] is a DataFrame of one column.
InitChart ==
  /\ predictions = [p \in Paths |-> NoFile]
  /\ mean_analysis = [k \in Keys |-> NoFile]
  /\ now = 0
  /\ call = NoCall
  /\ mean_predictions = [k \in Keys |-> EmptyDict]
  /\ n_calls = 0
  /\ n_writes = 0
  /\ LET bar(close) ==
           [Open |-> 10, High |-> 11, Low |-> 10, Close |-> close, Volume |-> 2]
     IN  \E q \in BOOLEAN \X {0, 1, 19, 20, 49, 50, 199, 200} \X {1, 25}
                   \X {10, 11} \X {10, 11} :
           data = [columns |-> RequiredSet,
                   multi |-> q[1],
                   rows |-> [t \in 1..q[2] |->
                               IF t <= q[2] - q[3] THEN bar(q[4]) ELSE bar(q[5])]]
  /\ tool_call = NoToolCall
  /\ runs = [s \in Sessions |-> NoRun]
  /\ response = NoResponse
  /\ charts = {}
  /\ dirs = {}

NextChart ==
  \E symbol \in {"NQ", "CL"}, timeframe \in {"intraday", "1h"} :
    GetChartData(symbol, timeframe)

SpecChart == InitChart /\ [][NextChart]_vars

---------------------------------------------------------------------------
(* Properties.  A step is a combine_predictions call when n_calls changes; *)
(* the unprimed state is then the state the call ran in and call' is how   *)
(* it ended.                                                               *)

IsCall == n_calls' # n_calls

\* The sources with a stored record for the key, in the unprimed state.
Stored(symbol, timeframe) == {a \in AgentSet : Exists(a, symbol, timeframe)}

\* The stored record of a source, as a dict.
StoredRecord(a, symbol, timeframe) == JsonLoad(predictions[Path(a, symbol, timeframe)])

\* C1: when no source has a stored record for the key, the call fails with
\* the no-predictions error, returns nothing and writes no file at all.
C1_ZeroSourceFails ==
  [][(IsCall /\ Stored(call'.symbol, call'.timeframe) = {})
       => /\ call'.outcome = "ValueError"
          /\ DOMAIN call'.result = {}
          /\ mean_analysis' = mean_analysis
          /\ predictions' = predictions]_vars

\* C2: a source with no stored record for the key is skipped: it is not in
\* agent_predictions, casts no vote and is not part of the confidence mean,
\* and aggregation goes on over the sources that have one.
C2_MissingSourceSkipped ==
  [][(IsCall /\ Stored(call'.symbol, call'.timeframe) # {})
       => LET present == Stored(call'.symbol, call'.timeframe)
              r == call'.result
          IN  call'.outcome = "returned"
                => /\ DOMAIN r.agent_predictions = present
                   /\ r.signal_counts["Buy"] + r.signal_counts["Sell"]
                        + r.signal_counts["Hold"] = Cardinality(present)]_vars

\* C9: no call changes, creates or deletes a prediction record.
C9_ReadOnly == [][IsCall => predictions' = predictions]_vars

---------------------------------------------------------------------------
(* The returned record *)

Returned == call.outcome = "returned"

\* The records of ap that carry label l.
Carrying(ap, l) ==
  {a \in DOMAIN ap : "prediction_label" \in DOMAIN ap[a] /\ ap[a].prediction_label = l}

\* Every record of ap carries one of Buy, Sell, Hold.
AllLabelled(ap) ==
  \A a \in DOMAIN ap :
    "prediction_label" \in DOMAIN ap[a] /\ ap[a].prediction_label \in LabelSet

\* C3: when every contributing record carries Buy, Sell or Hold, no label
\* has more votes among the records than the returned label, and a label
\* with strictly more votes than every other label is the returned label.
C3_MajorityVote ==
  (Returned /\ AllLabelled(call.result.agent_predictions))
    => LET ap == call.result.agent_predictions
           v(l) == Cardinality(Carrying(ap, l))
           r == call.result.prediction_label
       IN  /\ DOMAIN ap # {}
           /\ r \in LabelSet
           /\ \A l \in LabelSet : v(l) <= v(r)
           /\ \A l \in LabelSet :
                (\A l2 \in LabelSet \ {l} : v(l) > v(l2)) => r = l

\* Buy, Buy, Sell gives Buy with the counts 2, 1, 0.
C3_Witness ==
  /\ Returned
  /\ DOMAIN call.result.agent_predictions = AgentSet
  /\ AllLabelled(call.result.agent_predictions)
  /\ call.result.agent_predictions["deepseek"].prediction_label = "Buy"
  /\ call.result.agent_predictions["gemini"].prediction_label = "Buy"
  /\ call.result.agent_predictions["groq"].prediction_label = "Sell"
  /\ call.result.prediction_label = "Buy"
  /\ call.result.signal_counts = [Buy |-> 2, Sell |-> 1, Hold |-> 0]

\* The labels whose count in the returned signal_counts is the greatest.
Tied ==
  {l \in LabelSet : \A l2 \in LabelSet :
                      call.result.signal_counts[l2] <= call.result.signal_counts[l]}

\* C4: when several labels tie for the greatest count, the returned label
\* is Hold if Hold is one of them, and Buy when only Buy and Sell tie.
C4_TieBreak ==
  (Returned /\ Cardinality(Tied) >= 2)
    => /\ "Hold" \in Tied => call.result.prediction_label = "Hold"
       /\ Tied = {"Buy", "Sell"} => call.result.prediction_label = "Buy"

\* Sell loaded before Buy, one vote each: Buy.
C4_Witness ==
  /\ Returned
  /\ DOMAIN call.result.agent_predictions = {"gemini", "groq"}
  /\ AllLabelled(call.result.agent_predictions)
  /\ call.result.agent_predictions["gemini"].prediction_label = "Sell"
  /\ call.result.agent_predictions["groq"].prediction_label = "Buy"
  /\ Tied = {"Buy", "Sell"}
  /\ call.result.prediction_label = "Buy"

\* The sum of the stored confidences of the sources in S, in the unprimed state.
RECURSIVE StoredSum(_, _, _)
StoredSum(S, symbol, timeframe) ==
  IF S = {} THEN 0
  ELSE LET a == CHOOSE x \in S : TRUE
       IN  StoredRecord(a, symbol, timeframe).signal_strength
             + StoredSum(S \ {a}, symbol, timeframe)

\* C5: the returned confidence is the mean of the confidences of the records
\* in agent_predictions, and those are the records of the sources that have
\* one: a source with no record adds nothing to the sum or to the divisor.
C5_MeanOverProducedRecords ==
  [][(/\ IsCall
      /\ call'.outcome = "returned"
      /\ Stored(call'.symbol, call'.timeframe) # {}
      /\ \A a \in Stored(call'.symbol, call'.timeframe) :
           "signal_strength" \in DOMAIN StoredRecord(a, call'.symbol, call'.timeframe))
       => call'.result.signal_strength =
            Frac(StoredSum(Stored(call'.symbol, call'.timeframe),
                           call'.symbol, call'.timeframe),
                 Cardinality(Stored(call'.symbol, call'.timeframe)))]_vars

\* The label a record votes with: its own, or Hold when it has none.
VoteOf(rec) ==
  IF "prediction_label" \in DOMAIN rec THEN rec.prediction_label ELSE "Hold"

Total(m) == m.signal_counts["Buy"] + m.signal_counts["Sell"] + m.signal_counts["Hold"]

\* The counts of m are over Buy, Sell, Hold and add up to the number of its
\* records, which is 1, 2 or 3.
TallyShape(m) ==
  /\ DOMAIN m.signal_counts = LabelSet
  /\ Total(m) = Cardinality(DOMAIN m.agent_predictions)
  /\ Total(m) \in 1..3

\* The mean predictions there are: the one returned and the ones on file.
MeanRecords ==
  (IF Returned THEN {call.result} ELSE {})
    \cup {JsonLoadMean(mean_analysis[k]) : k \in {x \in Keys : mean_analysis[x] # NoFile}}

\* C6 as stated: each count is the number of records carrying that label.
C6_TallyOfCarriedLabels ==
  \A m \in MeanRecords :
    /\ TallyShape(m)
    /\ \A l \in LabelSet :
         m.signal_counts[l] = Cardinality(Carrying(m.agent_predictions, l))

\* C6, amended: each count is the number of records voting with that label,
\* where a record with no label votes Hold.
C6_TallyOfVotes ==
  \A m \in MeanRecords :
    /\ TallyShape(m)
    /\ \A l \in LabelSet :
         m.signal_counts[l] =
           Cardinality({a \in DOMAIN m.agent_predictions :
                          VoteOf(m.agent_predictions[a]) = l})

\* A returned and saved record with a source that has no label, counted as Hold.
C6_Witness ==
  /\ Returned
  /\ mean_analysis[<<call.symbol, call.timeframe>>] # NoFile
  /\ DOMAIN call.result.agent_predictions = AgentSet
  /\ "prediction_label" \notin DOMAIN call.result.agent_predictions["deepseek"]
  /\ call.result.agent_predictions["gemini"].prediction_label = "Buy"
  /\ call.result.agent_predictions["groq"].prediction_label = "Sell"
  /\ call.result.signal_counts = [Buy |-> 1, Sell |-> 1, Hold |-> 1]

---------------------------------------------------------------------------
(* The saved record *)

\* C7: a call that returns leaves in the file of its key, in full, the
\* record it returns, and a call that fails leaves every file as it was; the
\* file of a key, as long as the data directory is not cleaned of it, holds
\* the record the latest successful call for the key returned, and there is
\* no file before the first one.
C7_LastWriteWins ==
  /\ [](\A k \in Keys :
          mean_analysis[k] # NoFile =>
            /\ DOMAIN mean_predictions[k] # {}
            /\ JsonLoadMean(mean_analysis[k]) = mean_predictions[k])
  /\ [][IsCall =>
          IF call'.outcome = "returned"
          THEN JsonLoadMean(mean_analysis'[<<call'.symbol, call'.timeframe>>])
                 = call'.result
          ELSE mean_analysis' = mean_analysis]_vars

\* A second successful call for a key, made after a predictor wrote a record
\* for it: the default groq record of the first call is older than the
\* record of deepseek.
C7_Witness ==
  /\ call.n = 2
  /\ Returned
  /\ "deepseek" \in DOMAIN call.result.agent_predictions
  /\ call.result.agent_predictions["groq"].key_factors = <<"Default prediction">>
  /\ call.result.agent_predictions["groq"].timestamp
       < call.result.agent_predictions["deepseek"].timestamp
  /\ JsonLoadMean(mean_analysis[<<call.symbol, call.timeframe>>]) = call.result

SameButTimestamp(m1, m2) ==
  /\ DOMAIN m1 = DOMAIN m2
  /\ \A k \in DOMAIN m1 \ {"timestamp"} : m1[k] = m2[k]

\* C8: a call for the key of the call before it, which returned, with no
\* predictor write in between (the clock was not read since) and the data
\* directory not cleaned (the file of the earlier call is there), returns and
\* saves a record equal to the earlier one in everything but its timestamp.
C8_Idempotent ==
  [][(/\ IsCall
      /\ call.outcome = "returned"
      /\ mean_analysis[<<call.symbol, call.timeframe>>] # NoFile
      /\ call'.symbol = call.symbol
      /\ call'.timeframe = call.timeframe
      /\ now = call.result.timestamp + 1)
       => /\ call'.outcome = "returned"
          /\ SameButTimestamp(call.result, call'.result)
          /\ call'.result.timestamp # call.result.timestamp
          /\ SameButTimestamp(
               JsonLoadMean(mean_analysis[<<call.symbol, call.timeframe>>]),
               JsonLoadMean(mean_analysis'[<<call.symbol, call.timeframe>>]))]_vars

\* Two calls for one key and no write: the second result carries the default
\* groq record the first call made.
C8_Witness ==
  /\ n_calls = 2
  /\ n_writes = 0
  /\ Returned
  /\ call.result.agent_predictions["groq"].timestamp + 1 < call.result.timestamp

\* C10: the entry of every source that has a stored record is that record,
\* field for field, in the returned record and in the saved one, and the
\* stored record is left as it is.
C10_VerbatimPassThrough ==
  [][(IsCall /\ call'.outcome = "returned")
       => \A a \in Stored(call'.symbol, call'.timeframe) :
            LET p == Path(a, call'.symbol, call'.timeframe)
                saved == JsonLoad(mean_analysis'[<<call'.symbol, call'.timeframe>>])
            IN  /\ a \in DOMAIN call'.result.agent_predictions
                /\ call'.result.agent_predictions[a] = JsonLoad(predictions[p])
                /\ JsonLoad(saved["agent_predictions"])[a] = predictions[p]
                /\ predictions'[p] = predictions[p]]_vars

\* A record a predictor stored, without a label, returned and saved with its
\* rationale and key factors.
C10_Witness ==
  /\ Returned
  /\ "gemini" \in DOMAIN call.result.agent_predictions
  /\ call.result.agent_predictions["gemini"].technical_analysis = "ta"
  /\ call.result.agent_predictions["gemini"].key_factors = <<"f1", "f2">>
  /\ "prediction_label" \notin DOMAIN call.result.agent_predictions["gemini"]
  /\ JsonLoadMean(mean_analysis[<<call.symbol, call.timeframe>>]).agent_predictions["gemini"]
       = call.result.agent_predictions["gemini"]

---------------------------------------------------------------------------
(* The volume profile *)

\* calculate_volume_profile has been called on the frame.
ProfileCall == tool_call.op = "calculate_volume_profile"

\* The bins of the returned profile.
Bins == DOMAIN tool_call.result.Volume

\* x <= y of two doubles.
less_equal(x, y) == ~less(y, x)

\* Two doubles within the tolerance of floats: neither is greater than the
\* other by more than its 2^-32th part.
Near(x, y) ==
  LET part(v) == float64("/", float64("/", v, float64("int", 65536, 0)),
                         float64("int", 65536, 0))
  IN  /\ less_equal(x, float64("+", y, part(y)))
      /\ less_equal(y, float64("+", x, part(x)))

\* The sum of a sequence of doubles, one added after the other.
RECURSIVE Sum64(_)
Sum64(s) ==
  IF s = << >> THEN <<<< >>, 0>>
  ELSE float64("+", Sum64(SubSeq(s, 1, Len(s) - 1)), s[Len(s)])

\* The volume of the bars of the frame.
InputVolume == SumSeq([t \in DOMAIN data.rows |-> data.rows[t].Volume])

\* The volume of the bins of the returned profile.
BinVolume == Sum64([i \in Bins |-> tool_call.result.Volume[i]])

\* C11: the profile of a frame of at least one bar has num_bins bins, and
\* the volumes of its bins add up to the volumes of the bars, within the
\* tolerance of floats.
C11_VolumeConservation ==
  (ProfileCall /\ data.rows # << >>) =>
    /\ tool_call.raised = "none"
    /\ Len(tool_call.result.index) = tool_call.num_bins
    /\ Near(BinVolume, float64("int", InputVolume, 0))

\* The bins flagged as the point of control.
Poc == {i \in Bins : tool_call.result.index[i] \in tool_call.result.PointOfControl}

\* C12: the profile of a frame of at least one bar has exactly one bin
\* flagged as the point of control, and no bin has more volume than it.
C12_PointOfControlUnique ==
  (ProfileCall /\ data.rows # << >>) =>
    /\ tool_call.raised = "none"
    /\ Cardinality(Poc) = 1
    /\ \A p \in Poc, i \in Bins :
         less_equal(tool_call.result.Volume[i], tool_call.result.Volume[p])

\* The bins flagged as the value area, and their volume.
Va == {i \in Bins : tool_call.result.index[i] \in tool_call.result.ValueArea}

VolumeOf(S) ==
  Sum64(SelectSeq([i \in Bins |-> IF i \in S THEN tool_call.result.Volume[i]
                                  ELSE << >>],
                  LAMBDA v : v # << >>))

\* 70% of the volume of the profile.
Target ==
  float64("*", BinVolume, float64("/", float64("int", 7, 0), float64("int", 10, 0)))

\* The flagged bins lead the bins in the order of falling volume.
VaLeads ==
  \A f \in Va, u \in Bins \ Va :
    less_equal(tool_call.result.Volume[u], tool_call.result.Volume[f])

\* A flagged bin of the least volume among the flagged ones.
VaLowest(i) ==
  /\ i \in Va
  /\ \A f \in Va : less_equal(tool_call.result.Volume[i], tool_call.result.Volume[f])

\* C13: in the profile of a frame of at least one bar the flagged bins lead
\* the order of falling volume, hold at least 70% of the volume, and hold
\* less than 70% of it once a flagged bin of the least volume is taken out.
C13_ValueAreaMinimal ==
  (ProfileCall /\ data.rows # << >>) =>
    /\ tool_call.raised = "none"
    /\ VaLeads
    /\ less_equal(Target, VolumeOf(Va)) \/ Near(Target, VolumeOf(Va))
    /\ \A i \in Va : VaLowest(i) => less(VolumeOf(Va \ {i}), Target)

\* C14: of a frame of no bars, calculate_volume_profile returns the one
\* row of zeros with the point of control set and the value area unset,
\* and analyze_volume_profile returns a result marked as holding no data.
C14_EmptySeries ==
  /\ (ProfileCall /\ data.rows = << >>) =>
       /\ tool_call.raised = "none"
       /\ Len(tool_call.result.index) = 1
       /\ tool_call.result.PriceLow[1] = <<0, 1>>
       /\ tool_call.result.PriceHigh[1] = <<0, 1>>
       /\ tool_call.result.PriceMid[1] = <<0, 1>>
       /\ tool_call.result.Volume[1] = <<0, 1>>
       /\ tool_call.result.ValueArea = {}
       /\ tool_call.result.PointOfControl = {tool_call.result.index[1]}
  /\ (/\ tool_call.op = "analyze_volume_profile"
      /\ tool_call.symbol \in FUTURES_MAPPING
      /\ tool_call.answer = "data"
      /\ data.rows = << >>) =>
       /\ tool_call.raised = "none"
       /\ "data_available" \in DOMAIN tool_call.result
       /\ tool_call.result.data_available = FALSE

\* A frame of no bars has been profiled.
C14_Witness ==
  /\ ProfileCall
  /\ data.rows = << >>
  /\ Len(tool_call.result.index) = 1

---------------------------------------------------------------------------
(* The technical indicators *)

\* calculate_all_indicators has been called on the frame.
IndicatorsCall == tool_call.op = "calculate_all_indicators"

\* The frame has the five required columns.
AllColumns == RequiredSet \subseteq data.columns

\* No point of the series is a number.
NoNumber(series) == \A t \in DOMAIN series : ~IsNumeric(series[t])

\* C15: of a frame with all columns the call raises nothing, whatever the
\* length, and no point of the RSI is a number under 14 bars, none of the
\* Bollinger bands under 20 bars, none of the MACD series under 26 bars.
C15_WarmUp ==
  (IndicatorsCall /\ AllColumns) =>
    /\ tool_call.raised = "none"
    /\ Len(data.rows) < 14 => NoNumber(tool_call.result.rsi)
    /\ Len(data.rows) < 20 =>
         /\ NoNumber(tool_call.result.bollinger_bands.upper_band)
         /\ NoNumber(tool_call.result.bollinger_bands.middle_band)
         /\ NoNumber(tool_call.result.bollinger_bands.lower_band)
    /\ Len(data.rows) < 26 =>
         /\ NoNumber(tool_call.result.macd.macd_line)
         /\ NoNumber(tool_call.result.macd.signal_line)
         /\ NoNumber(tool_call.result.macd.histogram)

\* The indicators of a frame of 25 bars: the RSI and the bands are computed,
\* the MACD is not.
C15_Witness ==
  /\ IndicatorsCall
  /\ AllColumns
  /\ Len(data.rows) = 25
  /\ Len(tool_call.result.rsi) = 25
  /\ IsNumeric(tool_call.result.bollinger_bands.middle_band[25])
  /\ tool_call.result.macd.histogram = << >>

\* The close is the same on every bar of the frame.
ConstantClose == \A t, u \in DOMAIN data.rows : data.rows[t].Close = data.rows[u].Close

\* C16: of a frame of at least 26 bars of one close, the latest MACD
\* histogram is 0 and the latest RSI is 50.
C16_ConstantClose ==
  (IndicatorsCall /\ AllColumns /\ Len(data.rows) >= 26 /\ ConstantClose) =>
    /\ tool_call.raised = "none"
    /\ tool_call.result.macd.histogram[Len(data.rows)] = <<0, 1>>
    /\ tool_call.result.rsi[Len(data.rows)] = <<50, 1>>

\* The volume of the bars 1..t, and their typical prices times three,
\* weighted by volume.
CumulativeVolume(t) == SumSeq([u \in 1..t |-> data.rows[u].Volume])

CumulativeTraded3(t) ==
  SumSeq([u \in 1..t |->
            (data.rows[u].High + data.rows[u].Low + data.rows[u].Close)
              * data.rows[u].Volume])

\* C17: at every bar the VWAP is the volume-weighted mean of the typical
\* prices so far where volume has traded so far, and is NaN, neither a
\* number nor an exception, where none has.
C17_Vwap ==
  (IndicatorsCall /\ AllColumns) =>
    /\ tool_call.raised = "none"
    /\ Len(tool_call.result.vwap) = Len(data.rows)
    /\ \A t \in DOMAIN data.rows :
         LET vwap == tool_call.result.vwap[t]
         IN  IF CumulativeVolume(t) > 0
             THEN /\ IsNumeric(vwap)
                  /\ vwap[1] * 3 * CumulativeVolume(t) = vwap[2] * CumulativeTraded3(t)
             ELSE vwap = <<0, 0>>

\* The VWAP of a frame whose first bar traded nothing and whose second did.
C17_Witness ==
  /\ IndicatorsCall
  /\ AllColumns
  /\ Len(data.rows) >= 2
  /\ data.rows[1].Volume = 0
  /\ data.rows[2].Volume > 0
  /\ data.rows[2].High > data.rows[2].Close
  /\ IsNumeric(tool_call.result.vwap[2])

\* C18: the call raises the error of the missing columns exactly when the
\* frame lacks a required column; the error names the columns the frame
\* lacks and no others, and no indicator has been computed.
C18_MissingColumns ==
  IndicatorsCall =>
    /\ (tool_call.raised = "ValueError") <=> ~AllColumns
    /\ tool_call.raised \in {"ValueError", "none"}
    /\ ~AllColumns =>
         /\ tool_call.message[1] = "Data is missing required columns:"
         /\ Range(tool_call.message[2]) = RequiredSet \ data.columns
         /\ Len(tool_call.message[2]) = Cardinality(RequiredSet \ data.columns)
         /\ DOMAIN tool_call.result = {}

\* The call on a frame of bars that lacks two columns.
C18_Witness ==
  /\ IndicatorsCall
  /\ data.rows # << >>
  /\ RequiredSet \ data.columns = {"High", "Volume"}
  /\ tool_call.raised = "ValueError"

\* format_indicators_for_agents has been called on the frame.
FormatCall == tool_call.op = "format_indicators_for_agents"

\* C19: the error of the missing columns reaches the caller of
\* format_indicators_for_agents; the call returns no text for such a frame.
C19_FatalNotSwallowed ==
  (FormatCall /\ ~AllColumns) => tool_call.raised # "none"

\* The text of a field: the latest value in hundredths, or N/A.
Shown(series) ==
  IF series = << >> \/ ~IsNumeric(series[Len(series)]) THEN <<"N/A">>
  ELSE format(series[Len(series)], ".2f")

\* C20: of a frame with all columns the text has the eight entries of the
\* indicators, each the latest value of its series, or N/A where the series
\* has none.
C20_Formatting ==
  (FormatCall /\ AllColumns) =>
    LET indicators == calculate_all_indicators(data)
        entries == tool_call.result.entries
    IN  /\ tool_call.raised = "none"
        /\ Len(entries) = 8
        /\ entries[1] = <<"- RSI: ", Shown(indicators.rsi)>>
        /\ entries[2] = <<"  - MACD Line: ", Shown(indicators.macd.macd_line)>>
        /\ entries[3] = <<"  - Signal Line: ", Shown(indicators.macd.signal_line)>>
        /\ entries[4] = <<"  - Histogram: ", Shown(indicators.macd.histogram)>>
        /\ entries[5] = <<"- VWAP: ", Shown(indicators.vwap)>>
        /\ entries[6] = <<"  - Upper Band: ", Shown(indicators.bollinger_bands.upper_band)>>
        /\ entries[7] = <<"  - Middle Band: ", Shown(indicators.bollinger_bands.middle_band)>>
        /\ entries[8] = <<"  - Lower Band: ", Shown(indicators.bollinger_bands.lower_band)>>

---------------------------------------------------------------------------
(* The pipeline and its callers *)

\* The caller s is inside combine_predictions: it has loaded the records
\* and has not written the artifact yet.
InFlight(s) == runs[s].pc = "combine" /\ runs[s].in_flight

\* The timeframe of the call of combine_predictions the caller s is at.
TimeframeOf(s) == CombineCalls[runs[s].i][2]

\* C21: in every execution of the pipeline, combine_predictions is invoked
\* only after deepseek, gemini and groq have each finished for the symbol,
\* with a record written or with none: a caller that is at a call of
\* combine_predictions, or inside one, holds the result of each of the three.
C21_ConsensusAfterCollection ==
  \A s \in Sessions : runs[s].pc = "combine" => runs[s].results = AgentSet

\* A caller is inside combine_predictions with the records of the three
\* predictors loaded, while the other caller has not run groq yet.
C21_Witness ==
  \E s, other \in Sessions :
    /\ InFlight(s)
    /\ DOMAIN runs[s].loaded = AgentSet
    /\ runs[s].results = AgentSet
    /\ runs[other].pc = "groq"

\* The artifact the caller s is about to overwrite was made from a record
\* that s has not read: one saved after s had loaded its records.
Stale(s, symbol) ==
  LET old == mean_analysis[<<symbol, TimeframeOf(s)>>]
      seen == JsonLoadMean(old).agent_predictions
  IN  /\ old # NoFile
      /\ \E a \in DOMAIN seen :
            \/ a \notin DOMAIN runs[s].loaded
            \/ seen[a].timestamp > runs[s].loaded[a].timestamp

\* C22: the callers never have two executions of combine_predictions for
\* the same symbol and timeframe in flight at once, and no update is lost:
\* no caller writes its artifact over one that another aggregation made
\* from newer records.
C22_SerializedAggregation ==
  /\ [](\A s1, s2 \in Sessions :
          (s1 # s2 /\ InFlight(s1) /\ InFlight(s2))
            => TimeframeOf(s1) # TimeframeOf(s2))
  /\ [][\A s \in Sessions, symbol \in Symbols :
          (InFlight(s) /\ ~runs'[s].in_flight) => ~Stale(s, symbol)]_vars

---------------------------------------------------------------------------
(* The bins of the volume profile *)

\* The bins of the returned profile that hold the whole range of the bar.
Holding(row) ==
  {i \in Bins : /\ less_equal(tool_call.result.PriceLow[i], float64("int", row.Low, 0))
                /\ less_equal(float64("int", row.High, 0), tool_call.result.PriceHigh[i])}

\* What the bar owes the bin i: all of its volume when i is the bin that
\* holds its range (the lower one for a bar of one price on the edge of
\* two bins), and else the part of its volume that falls to the overlap of
\* its range with the bin.
Share(row, i) ==
  LET holding == Holding(row)
      bin_low == IF less(tool_call.result.PriceLow[i], float64("int", row.Low, 0))
                 THEN float64("int", row.Low, 0) ELSE tool_call.result.PriceLow[i]
      bin_high == IF less(float64("int", row.High, 0), tool_call.result.PriceHigh[i])
                  THEN float64("int", row.High, 0) ELSE tool_call.result.PriceHigh[i]
  IN  IF holding # {}
      THEN (IF i \in holding /\ \A j \in holding : i <= j
            THEN float64("int", row.Volume, 0) ELSE <<<< >>, 0>>)
      ELSE IF less(bin_low, bin_high)
           THEN float64("/", float64("*", float64("int", row.Volume, 0),
                                          float64("-", bin_high, bin_low)),
                             float64("int", row.High - row.Low, 0))
           ELSE <<<< >>, 0>>

\* C23: the profile of a frame of at least one bar gives every bin, for
\* every bar, the whole volume of the bar when the range of the bar lies
\* within that bin and else the volume times the overlap of the range with
\* the bin over the range, and nothing where there is no overlap, within
\* the tolerance of floats.
C23_ProportionalAllocation ==
  (ProfileCall /\ data.rows # << >>) =>
    /\ tool_call.raised = "none"
    /\ \A i \in Bins :
         Near(tool_call.result.Volume[i],
              Sum64([t \in DOMAIN data.rows |-> Share(data.rows[t], i)]))

---------------------------------------------------------------------------
(* The summary of the volume profile *)

\* analyze_volume_profile was called for a symbol that has a ticker, on a
\* frame of at least one bar.
AnalyzeCall ==
  /\ tool_call.op = "analyze_volume_profile"
  /\ tool_call.symbol \in FUTURES_MAPPING
  /\ tool_call.answer = "data"
  /\ data.rows # << >>

\* The close of the last bar.
LastClose == float64("int", data.rows[Len(data.rows)].Close, 0)

\* The summary agrees with a profile of twenty bins whose point of control
\* is the bin poc_idx and whose value area the bins indices: its value area
\* runs from the lowest PriceLow to the highest PriceHigh of the flagged
\* bins, "above" says that the last close is greater than the PriceMid of
\* the point of control, and "inside" that the last close is in the value
\* area.
SummaryOf(frame, poc_idx, indices) ==
  LET r == tool_call.result
  IN  /\ indices # {}
      /\ \E i \in indices : frame.PriceHigh[i] = r.value_area_high
      /\ \A i \in indices : less_equal(frame.PriceHigh[i], r.value_area_high)
      /\ \E i \in indices : frame.PriceLow[i] = r.value_area_low
      /\ \A i \in indices : less_equal(r.value_area_low, frame.PriceLow[i])
      /\ r.position_relative_to_poc \in {"above", "below"}
      /\ r.position_relative_to_poc = "above" <=> less(frame.PriceMid[poc_idx], LastClose)
      /\ r.position_relative_to_va \in {"inside", "outside"}
      /\ r.position_relative_to_va = "inside"
           <=> (less_equal(r.value_area_low, LastClose)
                  /\ less_equal(LastClose, r.value_area_high))

\* C24: of a frame of at least one bar, analyze_volume_profile reports the
\* highest PriceHigh and the lowest PriceLow of the bins of the value area
\* of a profile calculate_volume_profile can return of it, says "above"
\* exactly when the last close is greater than the middle of the bin of the
\* point of control and "below" otherwise, and "inside" exactly when the
\* last close is within the value area.
C24_Summary ==
  AnalyzeCall =>
    /\ tool_call.raised = "none"
    /\ \E s \in volume_profile_sorted(data, default_num_bins) :
         \E indices \in first_rows(s.ranking, s.n_rows) :
           \E poc_idx \in s.ranking[1] \cap indices :
             SummaryOf(s.frame, poc_idx, indices)


\* The timeframes the model's response answers.
Answered == {response.items[i].timeframe : i \in DOMAIN response.items}

\* The predictions of the last analyze_futures call that no item of the
\* response stands behind.
Synthesized ==
  {i \in DOMAIN tool_call.result :
     /\ "timeframe" \in DOMAIN tool_call.result[i]
     /\ tool_call.result[i].timeframe \notin Answered}

ExistingLabels ==
  [i \in DOMAIN response.items |-> Get(response.items[i], "prediction_label", "Hold")]

ExistingStrengths ==
  [i \in DOMAIN response.items |-> Num(Get(response.items[i], "signal_strength", 5))]

Frequency(l) == Cardinality({i \in DOMAIN ExistingLabels : ExistingLabels[i] = l})

\* C25: a prediction synthesized for a missing timeframe carries a most
\* frequent label of the timeframes that exist and the mean of their
\* confidences; on identical existing predictions every run synthesizes the
\* same label (the predictions a call returns are those of the call that
\* returned before it); when no timeframe exists nothing is synthesized.
C25_InferenceFallbackValues ==
  /\ [](tool_call.op = "analyze_futures" =>
          /\ \A i \in Synthesized :
               /\ Frequency(tool_call.result[i].prediction_label) > 0
               /\ \A j \in DOMAIN ExistingLabels :
                    Frequency(ExistingLabels[j])
                      <= Frequency(tool_call.result[i].prediction_label)
               /\ tool_call.result[i].signal_strength
                    = DivF(SumF(ExistingStrengths), Num(Len(ExistingStrengths)))
          /\ response.items = << >> => Synthesized = {})
  /\ [][(/\ tool_call.op = "analyze_futures"
         /\ tool_call'.op = "analyze_futures"
         /\ tool_call.raised = "none"
         /\ tool_call'.raised = "none"
         /\ response' = response)
        => \A i \in Synthesized :
             tool_call'.result[i].prediction_label
               = tool_call.result[i].prediction_label]_vars

\* What tells a synthesized record from an observed one: the key factors
\* the code gives to the records it makes up.
Marked(r) ==
  /\ "key_factors" \in DOMAIN r
  /\ r.key_factors \in {inferred_prediction("", "", "", 0).key_factors,
                        default_prediction("", "").key_factors}

\* C26: the records the system synthesizes (the placeholder of the gemini
\* predictor, the default of the groq source) carry a marker, the stored
\* record, while it is there, still carries it, and no record a model
\* produced carries it.
C26_InferredRecordsMarked ==
  /\ \A symbol \in Symbols, timeframe \in Timeframes :
       Marked(default_prediction(symbol, timeframe))
  /\ tool_call.op = "analyze_futures" =>
       \A i \in DOMAIN tool_call.result :
         "timeframe" \in DOMAIN tool_call.result[i] =>
           /\ Marked(tool_call.result[i]) <=> i \in Synthesized
           /\ LET path == Path("gemini", tool_call.result[i].symbol,
                                tool_call.result[i].timeframe)
              IN  predictions[path] # NoFile =>
                    (Marked(JsonLoad(predictions[path])) <=> i \in Synthesized)


\* The mean of the last window closes of the frame, from the number of
\* bars at each price; the frames hold two prices at most.
MeanOfLast(window) ==
  LET n == Len(data.rows)
      last == (n - window + 1)..n
      prices == {data.rows[t].Close : t \in last}
      bars(p) == Cardinality({t \in last : data.rows[t].Close = p})
      lo == CHOOSE p \in prices : \A q \in prices : p <= q
      hi == CHOOSE p \in prices : \A q \in prices : q <= p
  IN  IF Cardinality(prices) = 1 THEN Frac(lo, 1)
      ELSE Frac(lo * bars(lo) + hi * bars(hi), window)

\* The block of the basic analysis in the text of the last get_chart_data
\* call.
TrendNote == tool_call.result.indicators_text[2]

\* get_chart_data has returned its result.
ChartReturned ==
  /\ tool_call.op = "get_chart_data"
  /\ tool_call.raised = "none"

\* The text of the result holds the block of the basic analysis.
NoteRendered ==
  /\ ChartReturned
  /\ Len(tool_call.result.indicators_text) = 2

\* The trend of the rendered note is Bullish exactly when SMA20 > SMA50,
\* Bearish exactly when SMA20 < SMA50 and Neutral otherwise, fewer than 50
\* bars included; the SMA200 is a value exactly when the frame has 200 bars
\* or more and N/A otherwise.
NoteAsClaimed ==
  LET n == Len(data.rows)
      both == n >= 50
  IN  /\ TrendNote.trend = "Bullish" <=> both /\ LtF(MeanOfLast(50), MeanOfLast(20))
      /\ TrendNote.trend = "Bearish" <=> both /\ LtF(MeanOfLast(20), MeanOfLast(50))
      /\ TrendNote.trend = "Neutral"
           <=> (~both \/ MeanOfLast(20) = MeanOfLast(50))
      /\ TrendNote.sma200 = <<"N/A">> <=> n < 200
      /\ n >= 200 =>
           TrendNote.sma200 = format(MeanOfLast(200), ".2f")

\* C27 as it is stated: the indicator summary get_chart_data returns is
\* rendered with the basic trend note, for a frame of any number of bars,
\* and the note is Bullish exactly when SMA20 > SMA50, Bearish exactly when
\* SMA20 < SMA50 and Neutral otherwise, fewer than 50 bars included; the
\* SMA200 is a value exactly when the frame has 200 bars or more and N/A
\* otherwise.
C27_TrendNote ==
  ChartReturned => (NoteRendered /\ NoteAsClaimed)

\* C27, amended: the indicator summary get_chart_data returns holds the
\* basic trend note exactly when the frame has 20 bars or more, and the
\* rendered note is Bullish exactly when SMA20 > SMA50, Bearish exactly when
\* SMA20 < SMA50 and Neutral otherwise, fewer than 50 bars included; its
\* SMA200 is a value exactly when the frame has 200 bars or more and N/A
\* otherwise.
C27_TrendNoteFrom20Bars ==
  ChartReturned =>
    /\ NoteRendered <=> Len(data.rows) >= 20
    /\ NoteRendered => NoteAsClaimed

C27_Witness ==
  /\ NoteRendered
  /\ Len(data.rows) >= 200
  /\ TrendNote.trend = "Bearish"
  /\ TrendNote.sma200 # <<"N/A">>


\* C28: on a frame of at least one bar and any number of bins,
\* calculate_volume_profile raises nothing and returns that many bins, in
\* the order of price, each starting where the one before ends, from the
\* lowest low to the highest high of the frame.
C28_TotalOnNonEmpty ==
  (ProfileCall /\ data.rows # << >>) =>
    /\ tool_call.raised = "none"
    /\ Len(tool_call.result.index) = tool_call.num_bins
    /\ tool_call.result.PriceLow[1] = float64("int", price_low(data)[1], 0)
    /\ tool_call.result.PriceHigh[tool_call.num_bins]
         = float64("int", price_high(data)[1], 0)
    /\ \A i \in Bins :
         /\ less_equal(tool_call.result.PriceLow[i], tool_call.result.PriceHigh[i])
         /\ i < tool_call.num_bins =>
              tool_call.result.PriceHigh[i] = tool_call.result.PriceLow[i + 1]

\* analyze_volume_profile has returned a result.
AnalyzeReturned ==
  /\ tool_call.op = "analyze_volume_profile"
  /\ tool_call.raised = "none"

\* C29: in every profile calculate_volume_profile returns for a frame of at
\* least one bar the bin flagged as the point of control is flagged as
\* value area too, and in every result of analyze_volume_profile
\* value_area_low <= point_of_control <= value_area_high.
C29_PocInValueArea ==
  /\ (ProfileCall /\ data.rows # << >> /\ tool_call.raised = "none") =>
       /\ Poc # {}
       /\ Poc \subseteq Va
  /\ AnalyzeReturned =>
       IF "data_available" \in DOMAIN tool_call.result
       THEN /\ LeqF(tool_call.result.value_area_low, tool_call.result.point_of_control)
            /\ LeqF(tool_call.result.point_of_control, tool_call.result.value_area_high)
       ELSE /\ less_equal(tool_call.result.value_area_low,
                          tool_call.result.point_of_control)
            /\ less_equal(tool_call.result.point_of_control,
                          tool_call.result.value_area_high)

C29_Witness ==
  /\ AnalyzeReturned
  /\ data.rows # << >>
  /\ less(tool_call.result.value_area_low, tool_call.result.point_of_control)
  /\ less(tool_call.result.point_of_control, tool_call.result.value_area_high)

\* The key of the call of the step.
CallKey == <<call'.symbol, call'.timeframe>>

\* The sources that have a record stored for the key once the call is over.
StoredFor(key) == {a \in AgentSet : predictions'[Path(a, key[1], key[2])] # NoFile}

\* C30: a combine_predictions call for a key, returning or raising, leaves
\* the artifact and the records of every other key as they were, and what
\* it returns is made of the records stored for its own key alone.
C30_KeyIsolation ==
  [][IsCall =>
       /\ \A k \in Keys \ {CallKey} : mean_analysis'[k] = mean_analysis[k]
       /\ \A p \in Paths : <<p[2], p[3]>> # CallKey => predictions'[p] = predictions[p]
       /\ call'.outcome = Outcome([a \in StoredFor(CallKey) |->
                                     JsonLoad(predictions'[Path(a, CallKey[1], CallKey[2])])])
       /\ call'.outcome = "returned" =>
            /\ call'.result.agent_predictions =
                 [a \in StoredFor(CallKey) |->
                    JsonLoad(predictions'[Path(a, CallKey[1], CallKey[2])])]
            /\ call'.result.signal_counts = signal_counts(call'.result.agent_predictions)
            /\ call'.result.prediction_label = mean_label(call'.result.signal_counts)
            /\ call'.result.signal_strength
                 = mean_signal_strength(call'.result.agent_predictions)]_vars

C30_Witness ==
  /\ call.n > 0
  /\ \E k \in Keys :
       /\ k # <<call.symbol, call.timeframe>>
       /\ mean_analysis[k] # NoFile
       /\ \E a \in AgentSet : predictions[Path(a, k[1], k[2])] # NoFile

====
